---- MODULE Spec2Model ----
(***************************************************************************)
(* race-the-web: the race-test engine.                                     *)
(*                                                                         *)
(*   StartCMD -> SetDefaults -> StartRace -> sendRequests (fan-out of one  *)
(*   goroutine per target, each launching configuration.Count request      *)
(*   goroutines; sync.WaitGroup barrier; close of both channels)           *)
(*   -> compareResponses (grouping pass) -> outputResponses.               *)
(*                                                                         *)
(* prepareAttack is modelled as a function of its own (SpecPrep): no code  *)
(* under src/ calls it.                                                    *)
(*                                                                         *)
(* Go strings that the code splits (cookies, headers) are sequences of     *)
(* one-character strings; other strings are opaque values.                 *)
(***************************************************************************)
EXTENDS Integers, Sequences, FiniteSets, TLC

\* ------------------------------------------------------------- bounds
\* Largest number of request goroutines (Count * len(Requests)) of a run,
\* and largest number of records handed to the grouping pass.
MaxUnits == 4

\* Largest number of requests the control surface handles in one behaviour.
MaxCalls == 3

\* longest response body read, in bytes, and the reads made of one body
MaxLen == 3
MaxReads == 3

\* ------------------------------------------------------------- helpers
Range(s) == {s[i] : i \in 1..Len(s)}

RECURSIVE SumSeq(_)
SumSeq(s) == IF s = <<>> THEN 0 ELSE Head(s) + SumSeq(Tail(s))

\* Number of positions of s whose element satisfies Test.
CountIf(s, Test(_)) == Cardinality({i \in 1..Len(s) : Test(s[i])})

\* strings.Split(s, sep) for a one-character separator: the pieces between
\* the separators, always at least one piece.
RECURSIVE SplitAcc(_, _, _)
SplitAcc(s, sep, cur) ==
    IF s = <<>> THEN <<cur>>
    ELSE IF Head(s) = sep THEN <<cur>> \o SplitAcc(Tail(s), sep, <<>>)
    ELSE SplitAcc(Tail(s), sep, Append(cur, Head(s)))

Split(s, sep) == SplitAcc(s, sep, <<>>)

\* strings.TrimSpace
RECURSIVE TrimLeft(_)
TrimLeft(s) == IF s # <<>> /\ Head(s) = " " THEN TrimLeft(Tail(s)) ELSE s

RECURSIVE TrimRight(_)
TrimRight(s) ==
    IF s # <<>> /\ s[Len(s)] = " " THEN TrimRight(SubSeq(s, 1, Len(s) - 1)) ELSE s

TrimSpace(s) == TrimRight(TrimLeft(s))

\* ------------------------------------------------------------- inputs
\* url.Parse fails on these (missing protocol scheme, invalid URL escape).
MalformedURLs == {"://bad", "%zz"}

URLParses(u) == u \notin MalformedURLs

\* http.NewRequest accepts these methods (valid method tokens).
ValidMethods == {"GET", "POST", "PUT", "HEAD"}

CookieSid  == <<"s", "=", "1">>
CookieTok  == <<"t", "=", "a", "=", "b">>
CookieBare == <<"n", "a", "m", "e">>
HeaderX    == <<"X", ":", "1">>
HeaderBare == <<"X">>
HeaderRef  == <<"X", ":", "a", ":", "b">>
HeaderCT   == <<"C", "o", "n", "t", "e", "n", "t", "-", "T", "y", "p", "e", ":", "j">>

\* Request (type Request): one target of the configuration.
\* (variant: decoding leaves every target with a cookie store)
NewTarget_M1(m, u, b, c, h, r) ==
    [Method |-> m, URL |-> u, Body |-> b, Cookies |-> c, Headers |-> h,
     Redirects |-> r, CookieJar |-> "jar"]
NewTarget(m, u, b, c, h, r) ==
    [Method |-> m, URL |-> u, Body |-> b, Cookies |-> c, Headers |-> h,
     Redirects |-> r, CookieJar |-> "nil"]

tGet       == NewTarget("GET", "http://a.test/coupon", "", <<CookieSid>>, <<>>, FALSE)
tPost      == NewTarget("POST", "http://a.test/pay", "v=1", <<>>, <<HeaderX>>, TRUE)
tBadURL    == NewTarget("GET", "://bad", "", <<>>, <<>>, FALSE)
tBadMethod == NewTarget("G T", "http://a.test/coupon", "", <<>>, <<>>, FALSE)
tBadHeader == NewTarget("GET", "http://a.test/coupon", "", <<>>, <<HeaderBare>>, FALSE)
tRefHeader == NewTarget("GET", "http://a.test/coupon", "", <<>>, <<HeaderRef>>, FALSE)
tBadCookie == NewTarget("GET", "http://a.test/coupon", "", <<CookieSid, CookieBare>>, <<>>, FALSE)
tTokCookie == NewTarget("GET", "http://a.test/coupon", "", <<CookieTok>>, <<>>, TRUE)
tPostCT    == NewTarget("POST", "http://a.test/pay", "{}", <<>>, <<HeaderX, HeaderCT>>, TRUE)
tGetCT     == NewTarget("GET", "http://a.test/coupon", "", <<>>, <<HeaderCT>>, FALSE)
tPut       == NewTarget("PUT", "http://a.test/pay", "v=1", <<>>, <<>>, FALSE)

\* Lists of targets a configuration file may hold.
RequestLists ==
    { <<>>, <<tGet>>, <<tPost>>, <<tGet, tPost>>, <<tGet, tGet>>,
      <<tBadURL>>, <<tGet, tBadURL>>, <<tBadMethod>>, <<tBadHeader>> }

\* Configuration (type Configuration) as getConfigFile returns it; Verbose
\* only switches logging and is left out.
RunConfigs ==
    { cfg \in [Count : 1..MaxUnits, Proxy : {""}, Requests : RequestLists] :
        cfg.Count * Len(cfg.Requests) <= MaxUnits }

\* *http.Response as the engine uses it.  Location is the Location header
\* ("" when absent); BodyOK tells whether ioutil.ReadAll(resp.Body) succeeds.
NewResponse(code, body, length, proto, loc, ok) ==
    [StatusCode |-> code, Body |-> body, ContentLength |-> length,
     Proto |-> proto, Location |-> loc, BodyOK |-> ok]

RespOK    == NewResponse(200, "ok", 2, "HTTP/1.1", "", TRUE)
RespUsed  == NewResponse(200, "no", 2, "HTTP/1.1", "", TRUE)
RespMoved == NewResponse(302, "moved", 5, "HTTP/1.1", "http://a.test/next", TRUE)

\* What the server and the network do with one request: a response that is
\* no redirect, a redirect the client acts on (a 3xx whose Location parses;
\* final is the response at the end of the chain), or a failure of the
\* transport (connection refused, timeout, TLS, DNS).
Answers ==
    { [kind |-> "response", resp |-> RespOK],
      [kind |-> "redirect", resp |-> RespMoved, final |-> RespUsed],
      [kind |-> "fail"] }

\* ------------------------------------------------------------- state
VARIABLES
    configuration,    \* var configuration Configuration
    pc,               \* position of the main goroutine
    urlsInProgress,   \* var urlsInProgress sync.WaitGroup (its counter)
    tgo,              \* per target: the goroutine sendRequests starts for it
    unit,             \* per launched request goroutine <<target, index>>: its position
    sent,             \* history: what each request goroutine put on the channels
    responses,        \* chan ResponseInfo of sendRequests
    errors,           \* chan error of sendRequests
    uniqueResponses,  \* []UniqueResponseInfo built by compareResponses
    compareErrors,    \* chan error of compareResponses
    consumed,         \* history: the records compareResponses has dealt with
    printed,          \* the [ERROR] lines StartRace printed
    ret,              \* what StartRace returned
    prep,             \* prepareAttack: its locals and its outcome
    api,              \* control surface: the handler at work and what it wrote as its reply
    report,           \* what outputResponses has printed, one report per call
    given,            \* history: the configuration as it was read from the file or the request
    closedBodies,     \* history: the records whose body the deferred function of StartRace closed
    reading           \* a response under ReadResponseBody: its body and what each read returned

vars == <<configuration, pc, urlsInProgress, tgo, unit, sent, responses, errors,
          uniqueResponses, compareErrors, consumed, printed, ret, prep,
          api, report, given, closedBodies, reading>>

\* no response is under ReadResponseBody
NoBody == [pc |-> "idle"]

NilChan == [buf |-> <<>>, cap |-> 0, closed |-> FALSE, made |-> FALSE]
\* (variant: a channel without buffer)
MakeChan_M1(n) == [buf |-> <<>>, cap |-> 0, closed |-> FALSE, made |-> TRUE]
MakeChan(n) == [buf |-> <<>>, cap |-> n, closed |-> FALSE, made |-> TRUE]
Send(ch, v) == [ch EXCEPT !.buf = Append(@, v)]
SendAll(ch, vs) == [ch EXCEPT !.buf = @ \o vs]
Close(ch) == [ch EXCEPT !.closed = TRUE]
\* (variant: a channel without a buffer to speak of, one item at most)
CanSend_M1(ch, vs) == ch.made /\ Len(ch.buf) + Len(vs) <= 1
CanSend(ch, vs) == ch.made /\ Len(ch.buf) + Len(vs) <= ch.cap

NoUnits == [u \in {} |-> "flight"]
PrepIdle == [pc |-> "idle"]

\* api.stored tells whether a set-config has replaced the configuration.
\* The reply of a handler before it has written anything: gin answers 200
\* unless told otherwise.  calls lists the calls made on the context.
NoReply == [written |-> FALSE, status |-> 200, body |-> <<>>, calls |-> <<>>]

\* Command-line use: no handler of the control surface is at work.
\* no SetConfig is assigning to var configuration beside a run
NoSetting == [todo |-> {}]

NoHandler == [handler |-> "none", calls |-> 0, last |-> "none", stored |-> FALSE,
              reply |-> NoReply, setting |-> NoSetting]

\* The server waits for its first request.
Idle == [handler |-> "idle", calls |-> 0, last |-> "none", stored |-> FALSE,
         reply |-> NoReply, setting |-> NoSetting]

\* var configuration before anything is stored in it: the zero value.
ZeroConfiguration == [Count |-> 0, Proxy |-> "", Requests |-> <<>>]

\* Default value of Count.
DefaultCount == 100

\* helpers.go: SetDefaults
\* (variant: no default is set)
SetDefaults_M1(config) == config
SetDefaults(config) ==
    IF config.Count = 0 THEN [config EXCEPT !.Count = DefaultCount] ELSE config

NumTargets == Len(configuration.Requests)

\* Capacity of the responses and of the errors channel.
\* (variant: room for the requests of one target only)
ChannelCapacity_M1(config) == config.Count
ChannelCapacity(config) == config.Count * Len(config.Requests)

\* Argument of urlsInProgress.Add.
\* (variant: the barrier counts the units of one target only)
BarrierCount_M1(config) == config.Count
\* (variant: one is registered per target)
BarrierCount_M2(config) == Len(config.Requests)
BarrierCount(config) == config.Count * Len(config.Requests)

\* ------------------------------------------------------------- StartCMD, StartRace
\* The process is alive: an unrecovered panic in any goroutine ends it.
Alive == pc # "panic"

\* cmd.go: StartCMD, after getConfigFile: SetDefaults, then the call of StartRace.
StartCMD ==
    /\ pc = "StartCMD"
    /\ configuration' = SetDefaults(configuration)
    /\ pc' = "StartRace"
    /\ UNCHANGED <<urlsInProgress, tgo, unit, sent, responses, errors,
                   uniqueResponses, compareErrors, consumed, printed, ret, prep,
                   api, report, given,
                   closedBodies, reading>>

\* StartRace: the check for targets; without one it returns an error and nil.
\* (variant: the check is left out)
StartRace_M1 ==
    /\ pc = "StartRace"
    /\ pc' = "sendRequests"
    /\ UNCHANGED <<configuration, urlsInProgress, tgo, unit, sent, responses, errors,
                   uniqueResponses, compareErrors, consumed, printed, ret, prep,
                   api, report, given,
                   closedBodies, reading>>
StartRace ==
    /\ pc = "StartRace"
    /\ IF Len(configuration.Requests) = 0
         THEN /\ ret' = [err |-> "No targets set. Minimum of 1 target required.",
                         uniqueResponses |-> <<>>]
              /\ pc' = "returned"
         ELSE /\ pc' = "sendRequests"
              /\ UNCHANGED ret
    /\ UNCHANGED <<configuration, urlsInProgress, tgo, unit, sent, responses, errors,
                   uniqueResponses, compareErrors, consumed, printed, prep,
                   api, report, given,
                   closedBodies, reading>>

\* ------------------------------------------------------------- sendRequests
\* sendRequests, up to the barrier: both channels are made, the WaitGroup is
\* raised, and one goroutine is started per target.
SendRequestsBegin ==
    /\ pc = "sendRequests"
    /\ IF ChannelCapacity(configuration) < 0
         THEN \* make(chan ResponseInfo, n) with n < 0: a run-time panic
              /\ pc' = "panic"
              /\ UNCHANGED <<responses, errors, urlsInProgress, tgo>>
         ELSE /\ responses' = MakeChan(ChannelCapacity(configuration))
              /\ errors' = MakeChan(ChannelCapacity(configuration))
              /\ urlsInProgress' = urlsInProgress + BarrierCount(configuration)
              /\ tgo' = [k \in 1..Len(configuration.Requests) |->
                           [pc |-> "parse", t |-> configuration.Requests[k], i |-> 0]]
              /\ pc' = "Wait"
    /\ UNCHANGED <<configuration, unit, sent, uniqueResponses, compareErrors,
                   consumed, printed, ret, prep,
                   api, report, given,
                   closedBodies, reading>>

NewError(msg, index, url) == [msg |-> msg, index |-> index, url |-> url]

\* The goroutine of target k: url.Parse(t.URL); on failure one error is sent
\* and the goroutine returns.
TargetParse(k) ==
    /\ Alive
    /\ k \in DOMAIN tgo
    /\ tgo[k].pc = "parse"
    /\ IF URLParses(tgo[k].t.URL)
         THEN /\ tgo' = [tgo EXCEPT ![k].pc = "loop"]
              /\ UNCHANGED errors
         ELSE /\ CanSend(errors, <<1>>)
              /\ errors' = Send(errors, NewError("Error parsing URL", -1, tgo[k].t.URL))
              /\ tgo' = [tgo EXCEPT ![k].pc = "returned"]
    /\ UNCHANGED <<configuration, pc, urlsInProgress, unit, sent, responses,
                   uniqueResponses, compareErrors, consumed, printed, ret, prep,
                   api, report, given,
                   closedBodies, reading>>

\* The goroutine of target k: for i := 0; i < configuration.Count; i++ { go func(i) }
TargetLoop(k) ==
    /\ Alive
    /\ k \in DOMAIN tgo
    /\ tgo[k].pc = "loop"
    /\ IF tgo[k].i < configuration.Count
         THEN /\ unit' = (<<k, tgo[k].i>> :> "flight") @@ unit
              /\ tgo' = [tgo EXCEPT ![k].i = @ + 1]
         ELSE /\ tgo' = [tgo EXCEPT ![k].pc = "returned"]
              /\ UNCHANGED unit
    /\ UNCHANGED <<configuration, pc, urlsInProgress, sent, responses, errors,
                   uniqueResponses, compareErrors, consumed, printed, ret, prep,
                   api, report, given,
                   closedBodies, reading>>

\* The header loop of a request goroutine indexes split[1]: a header without
\* ':' makes it panic with an index out of range.
HeaderSplitPanics(t) ==
    \E j \in 1..Len(t.Headers) : Len(Split(t.Headers[j], ":")) < 2

\* http.Client.Do under the client the goroutine builds for target t.  With
\* CheckRedirect set (t.Redirects false) a redirect ends the request with the
\* redirect response and a *url.Error wrapping *RedirectError; net/http has
\* then closed the body of that response.  Without it the client follows the
\* redirect and hands back the final response.
ClientDo(t, ans) ==
    CASE ans.kind = "fail" -> [resp |-> "nil", err |-> "url.Error"]
      [] ans.kind = "response" -> [resp |-> ans.resp, err |-> "nil"]
      [] ans.kind = "redirect" ->
            IF t.Redirects
              THEN [resp |-> ans.final, err |-> "nil"]
              ELSE [resp |-> [ans.resp EXCEPT !.BodyOK = (ans.resp.ContentLength = 0)],
                    err |-> "RedirectError"]

\* The Set-Cookie headers of an answer: the redirect and the answer behind
\* it set a cookie, the plain answer sets none.
SetCookies(resp) ==
    IF resp.StatusCode = 302 \/ resp.Body = "no" THEN <<"seen=1">> ELSE <<>>

\* The responses http.Client.Do receives for one request, every hop of a
\* redirect that is followed included.
Received(t, ans) ==
    CASE ans.kind = "fail" -> <<>>
      [] ans.kind = "response" -> <<ans.resp>>
      [] ans.kind = "redirect" ->
            IF t.Redirects THEN <<ans.resp, ans.final>> ELSE <<ans.resp>>

\* What http.Client.Do writes into the Jar of its client: with a nil Jar
\* nothing, otherwise Jar.SetCookies with the cookies of each response it
\* receives.
JarWrites(jar, t, ans) ==
    IF jar = "nil"
      THEN <<>>
      ELSE LET got == Received(t, ans)
               RECURSIVE all(_)
               all(n) == IF n = 0 THEN <<>> ELSE all(n - 1) \o SetCookies(got[n])
           IN all(Len(got))

\* strings.ToLower, over the letters the header names here are made of.
Lower(c) ==
    CASE c = "C" -> "c"
      [] c = "T" -> "t"
      [] c = "X" -> "x"
      [] OTHER -> c

ToLower(s) == [i \in 1..Len(s) |-> Lower(s[i])]

ContentTypeKey == <<"c", "o", "n", "t", "e", "n", "t", "-", "t", "y", "p", "e">>

FormContentType == <<"Content-Type", "application/x-www-form-urlencoded">>

\* The header loop of a request goroutine: each header string is split at
\* ":" and split[0], split[1] are added; contentType tells whether one of the
\* names is "content-type" in lower case.
CustomHeaders(t) ==
    [j \in 1..Len(t.Headers) |->
       LET split == Split(t.Headers[j], ":") IN <<split[1], split[2]>>]

HasContentType(t) ==
    \E j \in 1..Len(t.Headers) :
      ToLower(Split(t.Headers[j], ":")[1]) = ContentTypeKey

\* The headers of the request a goroutine sends for target t: the Cookie
\* header, the custom headers, and the form Content-Type for a POST without
\* a Content-Type of its own.
\* (variant: the form Content-Type is added to every POST)
RequestHeaders_M1(t) ==
    (IF Len(t.Cookies) > 0 THEN << <<"Cookie", t.Cookies>> >> ELSE <<>>)
      \o CustomHeaders(t)
      \o (IF t.Method = "POST" THEN <<FormContentType>> ELSE <<>>)
RequestHeaders(t) ==
    (IF Len(t.Cookies) > 0 THEN << <<"Cookie", t.Cookies>> >> ELSE <<>>)
      \o CustomHeaders(t)
      \o (IF ~HasContentType(t) /\ t.Method = "POST" THEN <<FormContentType>> ELSE <<>>)

\* The proxy of the transport a request goroutine builds: the error of
\* url.Parse is dropped, and http.ProxyURL of the nil URL it leaves means no
\* proxy.  "" stands for a direct connection.
UnitProxy(config) ==
    IF config.Proxy # "" /\ URLParses(config.Proxy) THEN config.Proxy ELSE ""

\* The request a goroutine has built when it calls client.Do.
BuiltRequest(t, config) ==
    [Method |-> t.Method, URL |-> t.URL, Body |-> t.Body,
     Header |-> RequestHeaders(t), Proxy |-> UnitProxy(config), Jar |-> t.CookieJar]

NoRequest == [Method |-> "", URL |-> "", Body |-> "", Header |-> <<>>, Proxy |-> "",
              Jar |-> "nil"]

NoSends == [panic |-> FALSE, responses |-> <<>>, errors |-> <<>>]

\* The branches after client.Do: what goes on which channel.
\* (variant M1: every error of client.Do is reported as an error;
\*  variant M2: the redirect branch also falls through to the error send)
ReportOutcome_M1(t, index, r) ==
    IF r.err # "nil"
      THEN [NoSends EXCEPT !.errors = <<NewError("Error in request", index, "")>>]
      ELSE [NoSends EXCEPT !.responses = <<[Response |-> r.resp, Target |-> t]>>]
ReportOutcome_M2(t, index, r) ==
    IF r.err = "RedirectError"
      THEN [NoSends EXCEPT !.responses = <<[Response |-> r.resp, Target |-> t]>>,
                           !.errors = <<NewError("Error in request", index, "")>>]
      ELSE IF r.err # "nil"
        THEN [NoSends EXCEPT !.errors = <<NewError("Error in request", index, "")>>]
        ELSE [NoSends EXCEPT !.responses = <<[Response |-> r.resp, Target |-> t]>>]
ReportOutcome(t, index, r) ==
    IF r.err # "nil"
      THEN IF r.err = "RedirectError"
             THEN [NoSends EXCEPT !.responses = <<[Response |-> r.resp, Target |-> t]>>]
             ELSE [NoSends EXCEPT !.errors = <<NewError("Error in request", index, "")>>]
      ELSE [NoSends EXCEPT !.responses = <<[Response |-> r.resp, Target |-> t]>>]

\* The body of a request goroutine from http.NewRequest to its last send.
RunUnit(t, index, ans) ==
    IF t.Method \notin ValidMethods
      THEN [NoSends EXCEPT !.errors = <<NewError("Error in forming request", -1, "")>>]
      ELSE IF HeaderSplitPanics(t)
        THEN [NoSends EXCEPT !.panic = TRUE]
        ELSE ReportOutcome(t, index, ClientDo(t, ans))

\* Request goroutine u = <<k, index>>: the request is made and its outcome sent.
UnitRequest(u) ==
    /\ Alive
    /\ u \in DOMAIN unit
    /\ unit[u] = "flight"
    /\ \E ans \in Answers :
         LET out == RunUnit(tgo[u[1]].t, u[2], ans) IN
           IF out.panic
             THEN /\ pc' = "panic"
                  /\ UNCHANGED <<unit, sent, responses, errors>>
             ELSE /\ CanSend(responses, out.responses)
                  /\ CanSend(errors, out.errors)
                  /\ responses' = SendAll(responses, out.responses)
                  /\ errors' = SendAll(errors, out.errors)
                  /\ sent' = (u :> [ans |-> ans,
                                    req |-> IF tgo[u[1]].t.Method \in ValidMethods
                                              THEN BuiltRequest(tgo[u[1]].t, configuration)
                                              ELSE NoRequest,
                                    responses |-> out.responses,
                                    errors |-> out.errors]) @@ sent
                  /\ unit' = [unit EXCEPT ![u] = "sent"]
                  /\ UNCHANGED pc
    /\ UNCHANGED <<configuration, urlsInProgress, tgo, uniqueResponses,
                   compareErrors, consumed, printed, ret, prep,
                   api, report, given,
                   closedBodies, reading>>

\* Request goroutine u: the deferred urlsInProgress.Done(); a counter that
\* would go below zero panics.
UnitDone(u) ==
    /\ Alive
    /\ u \in DOMAIN unit
    /\ unit[u] = "sent"
    /\ IF urlsInProgress = 0
         THEN /\ pc' = "panic"
              /\ UNCHANGED <<urlsInProgress, unit>>
         ELSE /\ urlsInProgress' = urlsInProgress - 1
              /\ unit' = [unit EXCEPT ![u] = "done"]
              /\ UNCHANGED pc
    /\ UNCHANGED <<configuration, tgo, sent, responses, errors, uniqueResponses,
                   compareErrors, consumed, printed, ret, prep,
                   api, report, given,
                   closedBodies, reading>>

\* urlsInProgress.Wait() returns once the counter is zero.
Wait ==
    /\ pc = "Wait"
    /\ urlsInProgress = 0
    /\ pc' = "close"
    /\ UNCHANGED <<configuration, urlsInProgress, tgo, unit, sent, responses, errors,
                   uniqueResponses, compareErrors, consumed, printed, ret, prep,
                   api, report, given,
                   closedBodies, reading>>

\* close(responses); close(errors); return
SendRequestsEnd ==
    /\ pc = "close"
    /\ responses' = Close(responses)
    /\ errors' = Close(errors)
    /\ pc' = "printErrors"
    /\ UNCHANGED <<configuration, urlsInProgress, tgo, unit, sent, uniqueResponses,
                   compareErrors, consumed, printed, ret, prep,
                   api, report, given,
                   closedBodies, reading>>

\* StartRace: if len(errors) != 0 { for err := range errors { outError(...) } }
PrintErrors ==
    /\ pc = "printErrors"
    /\ printed' = printed \o errors.buf
    /\ errors' = [errors EXCEPT !.buf = <<>>]
    /\ pc' = "compareResponses"
    /\ UNCHANGED <<configuration, urlsInProgress, tgo, unit, sent, responses,
                   uniqueResponses, compareErrors, consumed, ret, prep,
                   api, report, given,
                   closedBodies, reading>>

\* ------------------------------------------------------------- compareResponses
\* helpers.go: ReadResponseBody: the content read and the error of ReadAll.
\* (variant: the error of ReadAll is dropped)
ReadResponseBody_M1(resp) ==
    [content |-> IF resp.BodyOK THEN resp.Body ELSE "", err |-> "nil"]
ReadResponseBody(resp) ==
    IF resp.BodyOK THEN [content |-> resp.Body, err |-> "nil"]
                   ELSE [content |-> "", err |-> "read error"]

\* http.Response.Location: ErrNoLocation without the header, a parse error
\* and a nil URL for a header that does not parse.
ResponseLocation(resp) ==
    IF resp.Location = "" THEN [url |-> "nil", err |-> "ErrNoLocation"]
    ELSE IF URLParses(resp.Location) THEN [url |-> resp.Location, err |-> "nil"]
    ELSE [url |-> "nil", err |-> "parse error"]

\* The UniqueResponseData built from a record whose body was read.
\* (variant: the protocol is not taken from the record)
RespData_M1(resp, content, location) ==
    [Body |-> content, StatusCode |-> resp.StatusCode, Length |-> resp.ContentLength,
     Protocol |-> "HTTP/1.1",
     Headers |-> IF resp.Location = "" THEN <<>> ELSE << <<"Location", resp.Location>> >>,
     Location |-> location]
RespData(resp, content, location) ==
    [Body |-> content, StatusCode |-> resp.StatusCode, Length |-> resp.ContentLength,
     Protocol |-> resp.Proto,
     Headers |-> IF resp.Location = "" THEN <<>> ELSE << <<"Location", resp.Location>> >>,
     Location |-> location]

\* The comparison of the inner loop: status code, body content, content length.
\* (variants: the content length, or the status code, is not compared)
SameResponse_M1(a, b) ==
    a.StatusCode = b.StatusCode /\ a.Body = b.Body
SameResponse_M2(a, b) ==
    a.Body = b.Body /\ a.Length = b.Length
SameResponse(a, b) ==
    a.StatusCode = b.StatusCode /\ a.Body = b.Body /\ a.Length = b.Length

\* The inner loop runs over the groups in order and stops at the first match:
\* the index of that group, 0 when no group matches.
\* (variant: only the newest group is compared)
MatchIndex_M1(groups, respData) ==
    IF groups # <<>> /\ SameResponse(respData, groups[Len(groups)].Response)
      THEN Len(groups) ELSE 0
MatchIndex(groups, respData) ==
    IF \E i \in 1..Len(groups) : SameResponse(respData, groups[i].Response)
      THEN CHOOSE i \in 1..Len(groups) :
             /\ SameResponse(respData, groups[i].Response)
             /\ \A j \in 1..(i - 1) : ~SameResponse(respData, groups[j].Response)
      ELSE 0

\* reflect.DeepEqual over the targets of a group.
HasTarget(targets, t) == \E j \in 1..Len(targets) : targets[j] = t

\* The matched group after Count++ and the target check.
\* (variant M1: the target is appended without the DeepEqual check;
\*  variant M2: Count++ sits inside the branch that appends a new target;
\*  variant M3: the target of the record replaces the targets of the group)
AddToGroup_M1(g, t) ==
    [g EXCEPT !.Count = @ + 1, !.Targets = Append(@, t)]
AddToGroup_M2(g, t) ==
    IF HasTarget(g.Targets, t) THEN g
    ELSE [g EXCEPT !.Count = @ + 1, !.Targets = Append(@, t)]
AddToGroup_M3(g, t) ==
    [g EXCEPT !.Count = @ + 1, !.Targets = <<t>>]
AddToGroup(g, t) ==
    [g EXCEPT !.Count = @ + 1,
              !.Targets = IF HasTarget(@, t) THEN @ ELSE Append(@, t)]

\* (variant: a new group starts with the count 2)
NewGroup_M1(respData, t) == [Count |-> 2, Response |-> respData, Targets |-> <<t>>]
NewGroup(respData, t) == [Count |-> 1, Response |-> respData, Targets |-> <<t>>]

\* One iteration of the loop over the responses channel.  group is the index
\* of the group the record went to (0: the record was skipped).
CompareOne(groups, respInfo) ==
    LET body == ReadResponseBody(respInfo.Response)
        loc  == ResponseLocation(respInfo.Response)
    IN IF body.err # "nil"
         THEN [groups |-> groups, errs |-> <<"Error reading response body">>,
               panic |-> FALSE, group |-> 0]
       ELSE IF loc.err # "ErrNoLocation" /\ loc.url = "nil"
         THEN [groups |-> groups, errs |-> <<>>, panic |-> TRUE, group |-> 0]
       ELSE LET respData == RespData(respInfo.Response, body.content,
                                      IF loc.err # "ErrNoLocation" THEN loc.url ELSE "")
                idx == MatchIndex(groups, respData)
            IN IF idx = 0
                 THEN [groups |-> Append(groups, NewGroup(respData, respInfo.Target)),
                       errs |-> <<>>, panic |-> FALSE, group |-> Len(groups) + 1]
                 ELSE [groups |-> [groups EXCEPT ![idx] = AddToGroup(@, respInfo.Target)],
                       errs |-> <<>>, panic |-> FALSE, group |-> idx]

\* compareResponses: errors = make(chan error, len(responses))
CompareBegin ==
    /\ pc = "compareResponses"
    /\ compareErrors' = MakeChan(Len(responses.buf))
    /\ pc' = "compareLoop"
    /\ UNCHANGED <<configuration, urlsInProgress, tgo, unit, sent, responses, errors,
                   uniqueResponses, consumed, printed, ret, prep,
                   api, report, given,
                   closedBodies, reading>>

\* compareResponses: for respInfo := range responses { ... }, one record.
CompareRecord ==
    /\ pc = "compareLoop"
    /\ responses.buf # <<>>
    /\ LET respInfo == Head(responses.buf)
           out == CompareOne(uniqueResponses, respInfo)
       IN /\ responses' = [responses EXCEPT !.buf = Tail(@)]
          /\ IF out.panic
               THEN /\ pc' = "panic"
                    /\ UNCHANGED <<uniqueResponses, compareErrors, consumed>>
               ELSE /\ CanSend(compareErrors, out.errs)
                    /\ consumed' = Append(consumed, [rec |-> respInfo, group |-> out.group])
                    /\ compareErrors' = SendAll(compareErrors, out.errs)
                    /\ uniqueResponses' = out.groups
                    /\ UNCHANGED pc
    /\ UNCHANGED <<configuration, urlsInProgress, tgo, unit, sent, errors,
                   printed, ret, prep,
                   api, report, given,
                   closedBodies, reading>>

\* compareResponses: the range ends on the closed, drained channel;
\* close(errors); return
CompareEnd ==
    /\ pc = "compareLoop"
    /\ responses.buf = <<>>
    /\ responses.closed
    /\ compareErrors' = Close(compareErrors)
    /\ pc' = "printCompareErrors"
    /\ UNCHANGED <<configuration, urlsInProgress, tgo, unit, sent, responses, errors,
                   uniqueResponses, consumed, printed, ret, prep,
                   api, report, given,
                   closedBodies, reading>>

\* StartRace: the errors of compareResponses are printed.
PrintCompareErrors ==
    /\ pc = "printCompareErrors"
    /\ printed' = printed \o compareErrors.buf
    /\ compareErrors' = [compareErrors EXCEPT !.buf = <<>>]
    /\ pc' = "outputResponses"
    /\ UNCHANGED <<configuration, urlsInProgress, tgo, unit, sent, responses, errors,
                   uniqueResponses, consumed, ret, prep,
                   api, report, given,
                   closedBodies, reading>>

\* cmd.go: outputResponses: one entry per group, in the order of the slice;
\* "Similar" is printed as Count-1.  The proxy is printed with each target
\* when one is set.
\* (variant: "Similar" is printed as the count itself)
OutputResponses_M1(groups, config) ==
    [i \in 1..Len(groups) |->
       [StatusCode |-> groups[i].Response.StatusCode,
        Protocol |-> groups[i].Response.Protocol,
        Headers |-> groups[i].Response.Headers,
        Location |-> groups[i].Response.Location,
        Body |-> groups[i].Response.Body,
        Similar |-> groups[i].Count,
        Requests |-> [j \in 1..Len(groups[i].Targets) |->
                        [URL |-> groups[i].Targets[j].URL,
                         Method |-> groups[i].Targets[j].Method,
                         Body |-> groups[i].Targets[j].Body,
                         Cookies |-> groups[i].Targets[j].Cookies,
                         Proxy |-> config.Proxy,
                         Redirects |-> groups[i].Targets[j].Redirects]]]]
OutputResponses(groups, config) ==
    [i \in 1..Len(groups) |->
       [StatusCode |-> groups[i].Response.StatusCode,
        Protocol |-> groups[i].Response.Protocol,
        Headers |-> groups[i].Response.Headers,
        Location |-> groups[i].Response.Location,
        Body |-> groups[i].Response.Body,
        Similar |-> groups[i].Count - 1,
        Requests |-> [j \in 1..Len(groups[i].Targets) |->
                        [URL |-> groups[i].Targets[j].URL,
                         Method |-> groups[i].Targets[j].Method,
                         Body |-> groups[i].Targets[j].Body,
                         Cookies |-> groups[i].Targets[j].Cookies,
                         Proxy |-> config.Proxy,
                         Redirects |-> groups[i].Targets[j].Redirects]]]]

\* StartRace: outputResponses(uniqueResponses); return nil, uniqueResponses.
\* On the way out the deferred function runs: it ranges over the responses
\* channel and closes the body of each record it receives, that is of the
\* records still in the channel, until the closed channel is drained.
StartRaceReturn ==
    /\ pc = "outputResponses"
    /\ report' = Append(report, OutputResponses(uniqueResponses, configuration))
    /\ ret' = [err |-> "nil", uniqueResponses |-> uniqueResponses]
    /\ responses.closed
    /\ closedBodies' = closedBodies \o responses.buf
    /\ responses' = [responses EXCEPT !.buf = <<>>]
    /\ pc' = "returned"
    /\ UNCHANGED <<configuration, urlsInProgress, tgo, unit, sent, errors,
                   uniqueResponses, compareErrors, consumed, printed, prep,
                   api, given, reading>>

\* cmd.go: StartCMD after StartRace has returned: an error is handed to main,
\* which prints it and exits; otherwise outputResponses(responseData) once
\* more, and StartCMD returns nil.
StartCMDReturn ==
    /\ pc = "returned"
    /\ api.handler = "none"
    /\ IF ret.err # "nil"
         THEN /\ printed' = Append(printed, NewError(ret.err, -1, ""))
              /\ UNCHANGED report
         ELSE /\ report' = Append(report, OutputResponses(ret.uniqueResponses, configuration))
              /\ UNCHANGED printed
    /\ pc' = "exit"
    /\ UNCHANGED <<configuration, urlsInProgress, tgo, unit, sent, responses, errors,
                   uniqueResponses, compareErrors, consumed, ret, prep, api, given,
                   closedBodies, reading>>

\* ------------------------------------------------------------- prepareAttack
\* Proxy settings.  url.Parse fails on the last one.
ProxyStrings ==
    {"", "http://127.0.0.1:8080", "https://127.0.0.1:8080", "//127.0.0.1:8080",
     "socks5://127.0.0.1:1080", "%zz"}

\* Scheme of a proxy URL that parses.
ProxyScheme(p) ==
    CASE p = "http://127.0.0.1:8080" -> "http"
      [] p = "https://127.0.0.1:8080" -> "https"
      [] p = "socks5://127.0.0.1:1080" -> "socks5"
      [] OTHER -> ""

\* proxyURL.String() after proxyURL.Scheme = "http".
WithHTTPScheme(p) == IF p = "//127.0.0.1:8080" THEN "http://127.0.0.1:8080" ELSE p

PrepRequestLists ==
    { <<>>, <<tGet>>, <<tPost>>, <<tTokCookie>>, <<tBadCookie>>, <<tBadURL>>,
      <<tGet, tPost>>, <<tGet, tBadCookie>>, <<tBadCookie, tGet>>,
      <<tBadURL, tBadCookie>>, <<tGet, tTokCookie>>, <<tPost, tBadURL>> }

PrepConfigs == [Count : {1}, Proxy : ProxyStrings, Requests : PrepRequestLists]

\* The cookie made from one cookie string, after the split has given two
\* pieces at least.
NewCookie(vals) == [Name |-> TrimSpace(vals[1]), Value |-> TrimSpace(vals[2])]

\* prepareAttack is entered: the loop over the targets starts.
PrepareBegin ==
    /\ pc = "prepareAttack"
    /\ prep.pc = "idle"
    /\ prep' = [pc |-> IF Len(configuration.Requests) = 0 THEN "proxy" ELSE "cookies",
                k |-> 1, c |-> 1, cookies |-> <<>>, jars |-> <<>>, err |-> "none"]
    /\ UNCHANGED <<configuration, pc, urlsInProgress, tgo, unit, sent, responses, errors,
                   uniqueResponses, compareErrors, consumed, printed, ret,
                   api, report, given,
                   closedBodies, reading>>

\* prepareAttack: one cookie string of target k is split at "=" and made a
\* cookie; vals[1] of a split with a single piece is out of range, a panic.
PrepareCookie ==
    /\ pc = "prepareAttack"
    /\ prep.pc = "cookies"
    /\ LET target == configuration.Requests[prep.k] IN
         IF prep.c > Len(target.Cookies)
           THEN prep' = [prep EXCEPT !.pc = "url"]
           ELSE LET vals == Split(target.Cookies[prep.c], "=") IN
                  IF Len(vals) < 2
                    THEN prep' = [prep EXCEPT !.pc = "panic"]
                    ELSE prep' = [prep EXCEPT !.cookies = Append(@, NewCookie(vals)),
                                              !.c = @ + 1]
    /\ UNCHANGED <<configuration, pc, urlsInProgress, tgo, unit, sent, responses, errors,
                   uniqueResponses, compareErrors, consumed, printed, ret,
                   api, report, given,
                   closedBodies, reading>>

\* prepareAttack: url.Parse(target.URL), then SetCookies on the jar of the
\* loop variable target, a copy of configuration.Requests[k].
PrepareTargetURL ==
    /\ pc = "prepareAttack"
    /\ prep.pc = "url"
    /\ IF ~URLParses(configuration.Requests[prep.k].URL)
         THEN prep' = [prep EXCEPT !.pc = "returned", !.err = "Error parsing target URL"]
         ELSE prep' = [prep EXCEPT
                         !.jars = Append(@, prep.cookies),
                         !.cookies = <<>>,
                         !.c = 1,
                         !.k = @ + 1,
                         !.pc = IF prep.k = Len(configuration.Requests)
                                  THEN "proxy" ELSE "cookies"]
    /\ UNCHANGED <<configuration, pc, urlsInProgress, tgo, unit, sent, responses, errors,
                   uniqueResponses, compareErrors, consumed, printed, ret,
                   api, report, given,
                   closedBodies, reading>>

\* prepareAttack: the proxy is parsed, its scheme defaulted or checked.
PrepareProxy ==
    /\ pc = "prepareAttack"
    /\ prep.pc = "proxy"
    /\ IF configuration.Proxy = ""
         THEN /\ prep' = [prep EXCEPT !.pc = "returned", !.err = "nil"]
              /\ UNCHANGED configuration
         ELSE IF ~URLParses(configuration.Proxy)
           THEN /\ prep' = [prep EXCEPT !.pc = "returned", !.err = "Invalid proxy URL."]
                /\ UNCHANGED configuration
         ELSE IF ProxyScheme(configuration.Proxy) = ""
           THEN /\ configuration' =
                     [configuration EXCEPT !.Proxy = WithHTTPScheme(@)]
                /\ prep' = [prep EXCEPT !.pc = "returned", !.err = "nil"]
         ELSE IF ProxyScheme(configuration.Proxy) \notin {"http", "https"}
           THEN /\ prep' = [prep EXCEPT !.pc = "returned",
                                        !.err = "Proxy must be an http or https proxy"]
                /\ UNCHANGED configuration
         ELSE /\ prep' = [prep EXCEPT !.pc = "returned", !.err = "nil"]
              /\ UNCHANGED configuration
    /\ UNCHANGED <<pc, urlsInProgress, tgo, unit, sent, responses, errors,
                   uniqueResponses, compareErrors, consumed, printed, ret,
                   api, report, given,
                   closedBodies, reading>>

PrepInit ==
    /\ configuration \in PrepConfigs
    /\ pc = "prepareAttack"
    /\ urlsInProgress = 0
    /\ tgo = <<>>
    /\ unit = NoUnits
    /\ sent = NoUnits
    /\ responses = NilChan
    /\ errors = NilChan
    /\ uniqueResponses = <<>>
    /\ compareErrors = NilChan
    /\ consumed = <<>>
    /\ printed = <<>>
    /\ ret = "none"
    /\ prep = PrepIdle
    /\ api = NoHandler
    /\ report = <<>>
    /\ given = configuration
    /\ closedBodies = <<>>
    /\ reading = NoBody

PrepNext ==
    \/ PrepareBegin
    \/ PrepareCookie
    \/ PrepareTargetURL
    \/ PrepareProxy

SpecPrep == PrepInit /\ [][PrepNext]_vars

\* ------------------------------------------------------------- the run
Init ==
    /\ configuration \in RunConfigs
    /\ pc = "StartCMD"
    /\ urlsInProgress = 0
    /\ tgo = <<>>
    /\ unit = NoUnits
    /\ sent = NoUnits
    /\ responses = NilChan
    /\ errors = NilChan
    /\ uniqueResponses = <<>>
    /\ compareErrors = NilChan
    /\ consumed = <<>>
    /\ printed = <<>>
    /\ ret = "none"
    /\ prep = PrepIdle
    /\ api = NoHandler
    /\ report = <<>>
    /\ given = configuration
    /\ closedBodies = <<>>
    /\ reading = NoBody

UnitIds == (1..MaxUnits + 1) \X (0..MaxUnits + 1)

Next ==
    \/ StartCMD
    \/ StartRace
    \/ SendRequestsBegin
    \/ \E k \in 1..(MaxUnits + 1) : TargetParse(k)
    \/ \E k \in 1..(MaxUnits + 1) : TargetLoop(k)
    \/ \E u \in UnitIds : UnitRequest(u)
    \/ \E u \in UnitIds : UnitDone(u)
    \/ Wait
    \/ SendRequestsEnd
    \/ PrintErrors
    \/ CompareBegin
    \/ CompareRecord
    \/ CompareEnd
    \/ PrintCompareErrors
    \/ StartRaceReturn
    \/ StartCMDReturn

Spec == Init /\ [][Next]_vars

\* ------------------------------------------------------------- the grouping pass alone
\* compareResponses over any channel content sendRequests can leave behind:
\* the run of the two targets below, seen after StartRace has printed the
\* errors of sendRequests.  Every request goroutine either delivered one of
\* the records, in any order of arrival, or failed.
RespChunked == NewResponse(200, "ok", -1, "HTTP/1.1", "", TRUE)
RespFound   == NewResponse(302, "ok", 2, "HTTP/2.0", "http://a.test/next", TRUE)
RespBroken  == NewResponse(200, "ok", 2, "HTTP/1.1", "", FALSE)
RespBadLoc  == NewResponse(201, "ok", 2, "HTTP/1.1", "%zz", TRUE)

GroupResponses == {RespOK, RespUsed, RespChunked, RespFound, RespBroken, RespBadLoc}

GroupTargets == <<tGet, tPost>>

\* The second target's requests are answered without a failing body or header.
GroupRecords ==
    { r \in [Response : GroupResponses, Target : Range(GroupTargets)] :
        r.Target = tGet \/ r.Response \in {RespOK, RespUsed, RespFound} }

RecordLists == UNION {[1..n -> GroupRecords] : n \in 0..MaxUnits}

TargetIndex(t) == CHOOSE k \in 1..Len(GroupTargets) : GroupTargets[k] = t

\* Number of records of recs[1..p] that come from the target of recs[p].
Occurrence(recs, p) ==
    Cardinality({q \in 1..p : recs[q].Target = recs[p].Target})

\* The unit that delivered recs[p]: the units of a target finish in index order.
Deliverer(recs, p) == <<TargetIndex(recs[p].Target), Occurrence(recs, p) - 1>>

\* The smallest Count whose run can deliver recs.
CountFor(recs) ==
    LET n(t) == Cardinality({p \in 1..Len(recs) : recs[p].Target = t})
        most == CHOOSE m \in {n(t) : t \in Range(GroupTargets)} :
                  \A t \in Range(GroupTargets) : n(t) <= m
    IN IF most = 0 THEN 1 ELSE most

GroupInitWith(recs) ==
    LET c == CountFor(recs)
        ids == (1..Len(GroupTargets)) \X (0..(c - 1))
        delivered == {Deliverer(recs, p) : p \in 1..Len(recs)}
        order == [n \in 1..(c * Len(GroupTargets)) |-> <<((n - 1) \div c) + 1, (n - 1) % c>>]
        failed == SelectSeq(order, LAMBDA u : u \notin delivered)
        posOf(u) == CHOOSE p \in 1..Len(recs) : Deliverer(recs, p) = u
    IN /\ configuration = [Count |-> c, Proxy |-> "", Requests |-> GroupTargets]
       /\ pc = "compareResponses"
       /\ urlsInProgress = 0
       /\ tgo = [k \in 1..Len(GroupTargets) |->
                   [pc |-> "returned", t |-> GroupTargets[k], i |-> c]]
       /\ unit = [u \in ids |-> "done"]
       /\ sent = [u \in ids |->
                    IF u \in delivered
                      THEN [ans |-> [kind |-> "response", resp |-> recs[posOf(u)].Response],
                            req |-> BuiltRequest(GroupTargets[u[1]], configuration),
                            responses |-> <<recs[posOf(u)]>>, errors |-> <<>>]
                      ELSE [ans |-> [kind |-> "fail"],
                            req |-> BuiltRequest(GroupTargets[u[1]], configuration),
                            responses |-> <<>>,
                            errors |-> <<NewError("Error in request", u[2], "")>>]]
       /\ responses = [buf |-> recs, cap |-> c * Len(GroupTargets),
                       closed |-> TRUE, made |-> TRUE]
       /\ errors = [buf |-> <<>>, cap |-> c * Len(GroupTargets),
                    closed |-> TRUE, made |-> TRUE]
       /\ uniqueResponses = <<>>
       /\ compareErrors = NilChan
       /\ consumed = <<>>
       /\ printed = [n \in 1..Len(failed) |-> NewError("Error in request", failed[n][2], "")]
       /\ ret = "none"
       /\ prep = PrepIdle
       /\ api = NoHandler
       /\ report = <<>>
       /\ given = configuration
       /\ closedBodies = <<>>
       /\ reading = NoBody

GroupInit == \E recs \in RecordLists : GroupInitWith(recs)

GroupNext ==
    \/ CompareBegin
    \/ CompareRecord
    \/ CompareEnd
    \/ PrintCompareErrors
    \/ StartRaceReturn

SpecGroup == GroupInit /\ [][GroupNext]_vars

\* The grouping pass over the records of one target, for the properties that
\* compare whole passes with each other.
OrderInit ==
    \E recs \in {l \in RecordLists : \A p \in 1..Len(l) : l[p].Target = tGet} :
      GroupInitWith(recs)

SpecOrder == OrderInit /\ [][GroupNext]_vars

\* The grouping pass over records of one target that agree in status, body
\* and length and differ in protocol and redirect location.
RespOK2     == NewResponse(200, "ok", 2, "HTTP/2.0", "", TRUE)
RespFoundTo == NewResponse(302, "ok", 2, "HTTP/1.1", "http://a.test/other", TRUE)

ExemplarRecords ==
    [Response : {RespOK, RespOK2, RespFound, RespFoundTo}, Target : {tGet}]

ExemplarInit ==
    \E recs \in UNION {[1..n -> ExemplarRecords] : n \in 0..MaxUnits} :
      GroupInitWith(recs)

SpecExemplar == ExemplarInit /\ [][GroupNext]_vars

\* ------------------------------------------------------------- runs with a proxy and with custom headers
\* Command-line runs of one request per target, over the proxy settings and
\* over targets with and without a Content-Type header of their own.
UnitRequestLists ==
    { <<>>, <<tGet>>, <<tPost>>, <<tPostCT>>, <<tGetCT>>, <<tPut>>, <<tBadMethod>>,
      <<tPost, tPostCT>>, <<tGetCT, tPost>>, <<tRefHeader>>, <<tBadHeader>> }

UnitConfigs == [Count : {1}, Proxy : ProxyStrings, Requests : UnitRequestLists]

UnitInit ==
    /\ configuration \in UnitConfigs
    /\ pc = "StartCMD"
    /\ urlsInProgress = 0
    /\ tgo = <<>>
    /\ unit = NoUnits
    /\ sent = NoUnits
    /\ responses = NilChan
    /\ errors = NilChan
    /\ uniqueResponses = <<>>
    /\ compareErrors = NilChan
    /\ consumed = <<>>
    /\ printed = <<>>
    /\ ret = "none"
    /\ prep = PrepIdle
    /\ api = NoHandler
    /\ report = <<>>
    /\ given = configuration
    /\ closedBodies = <<>>
    /\ reading = NoBody

SpecUnit == UnitInit /\ [][Next]_vars

\* ------------------------------------------------------------- the control surface
\* gin.Context: the status can be set until the first write of the body;
\* every write adds to the body.
CtxStatus(r, code) ==
    [r EXCEPT !.status = IF r.written THEN @ ELSE code,
              !.calls = Append(@, "Status")]

CtxHeader(r) == [r EXCEPT !.calls = Append(@, "Header")]

CtxJSON(r, code, message, detail) ==
    [r EXCEPT !.status = IF r.written THEN @ ELSE code,
              !.written = TRUE,
              !.body = Append(@, [kind |-> "message", message |-> message,
                                  detail |-> detail, groups |-> <<>>]),
              !.calls = Append(@, "JSON")]

\* json.NewEncoder(ctx.Writer).Encode(responses)
CtxEncode(r, groups) ==
    [r EXCEPT !.written = TRUE,
              !.body = Append(@, [kind |-> "groups", message |-> "", detail |-> "",
                                  groups |-> groups]),
              !.calls = Append(@, "Encode")]

\* The body of a set-config request: whether it is JSON at all, the keys it
\* has, and their values.
NewBody(valid, keys, count, requests) ==
    [valid |-> valid, keys |-> keys, count |-> count, requests |-> requests]

BodyMalformed  == NewBody(FALSE, {}, 0, <<>>)
BodyNoRequests == NewBody(TRUE, {"count"}, 1, <<>>)
BodyEmpty      == NewBody(TRUE, {"count", "requests"}, 1, <<>>)
BodyOne        == NewBody(TRUE, {"count", "requests"}, 1, <<tGet>>)
BodyTwice      == NewBody(TRUE, {"count", "requests"}, 2, <<tPost>>)
BodyTwo        == NewBody(TRUE, {"count", "requests"}, 1, <<tGet, tPost>>)
BodyNoCount    == NewBody(TRUE, {"requests"}, 0, <<tGet>>)
BodyZeroCount  == NewBody(TRUE, {"count", "requests"}, 0, <<tGet, tPost>>)
BodyNegative   == NewBody(TRUE, {"count", "requests"}, -1, <<tGet>>)

\* ctx.BindJSON(&config): the body is decoded into a Configuration, absent
\* keys keep their zero value, and "requests" is required.
\* (variant: whatever the body, a configuration comes out of it)
BindJSON_M1(body) ==
    [err |-> "nil",
     config |-> [Count |-> IF "count" \in body.keys THEN body.count ELSE 0,
                 Proxy |-> "",
                 Requests |-> body.requests]]
BindJSON(body) ==
    IF ~body.valid \/ "requests" \notin body.keys
      THEN [err |-> "invalid", config |-> ZeroConfiguration]
      ELSE [err |-> "nil",
            config |-> [Count |-> IF "count" \in body.keys THEN body.count ELSE 0,
                        Proxy |-> "",
                        Requests |-> body.requests]]

\* SetConfig: the body is bound and validated; defaults are set on the bound
\* value, which then replaces the global configuration.
SetConfig(body) ==
    /\ pc = "StartAPI"
    /\ api.handler = "idle"
    /\ api.calls < MaxCalls
    /\ LET b == BindJSON(body) IN
         IF b.err # "nil"
           THEN /\ api' = [api EXCEPT !.calls = @ + 1, !.last = "SetConfig",
                                      !.reply = CtxJSON(NoReply, 400, "invalid JSON data", "")]
                /\ UNCHANGED <<configuration, given,
                   closedBodies, reading>>
           ELSE /\ given' = b.config
                /\ configuration' = SetDefaults(b.config)
                /\ api' = [api EXCEPT !.calls = @ + 1, !.last = "SetConfig",
                                      !.stored = TRUE,
                                      !.reply = CtxJSON(NoReply, 200, "configuration saved", "")]
    /\ UNCHANGED <<pc, urlsInProgress, tgo, unit, sent, responses, errors,
                   uniqueResponses, compareErrors, consumed, printed, ret, prep, report, closedBodies, reading>>

\* GetConfig: the reply is the message "configuration: TODO".
GetConfig ==
    /\ pc = "StartAPI"
    /\ api.handler = "idle"
    /\ api.calls < MaxCalls
    /\ api' = [api EXCEPT !.calls = @ + 1, !.last = "GetConfig",
                          !.reply = CtxJSON(NoReply, 200, "configuration: TODO", "")]
    /\ UNCHANGED <<configuration, pc, urlsInProgress, tgo, unit, sent, responses, errors,
                   uniqueResponses, compareErrors, consumed, printed, ret, prep,
                   report, given,
                   closedBodies, reading>>

\* APIStart: the handler calls the engine (Start, StartRace in part_004),
\* which begins with fresh locals.
APIStartCall ==
    /\ pc = "StartAPI"
    /\ api.handler = "idle"
    /\ api.calls < MaxCalls
    /\ api' = [api EXCEPT !.handler = "APIStart", !.calls = @ + 1, !.last = "APIStart",
                          !.reply = NoReply]
    /\ pc' = "StartRace"
    /\ tgo' = <<>>
    /\ unit' = NoUnits
    /\ sent' = NoUnits
    /\ responses' = NilChan
    /\ errors' = NilChan
    /\ uniqueResponses' = <<>>
    /\ compareErrors' = NilChan
    /\ consumed' = <<>>
    /\ ret' = "none"
    /\ closedBodies' = <<>>
    /\ UNCHANGED <<configuration, urlsInProgress, printed, prep, report, given, reading>>

\* The calls APIStart makes on its context once the engine has returned: the
\* failure payload when there is an error, and then, in either case, the
\* header, the status 200 and the encoded responses.
StartReply(err, groups) ==
    LET failure == IF err # "nil"
                     THEN CtxJSON(NoReply, 500, "error", err)
                     ELSE NoReply
    IN CtxEncode(CtxStatus(CtxHeader(failure), 200), groups)

\* APIStart, after the engine has returned.
APIStartReply ==
    /\ pc = "returned"
    /\ api.handler = "APIStart"
    /\ api' = [api EXCEPT !.handler = "idle",
                          !.reply = StartReply(ret.err, ret.uniqueResponses)]
    /\ pc' = "StartAPI"
    /\ UNCHANGED <<configuration, urlsInProgress, tgo, unit, sent, responses, errors,
                   uniqueResponses, compareErrors, consumed, printed, ret, prep,
                   report, given,
                   closedBodies, reading>>

\* main without a configuration file: the server is started.
APIInit ==
    /\ configuration = ZeroConfiguration
    /\ pc = "StartAPI"
    /\ urlsInProgress = 0
    /\ tgo = <<>>
    /\ unit = NoUnits
    /\ sent = NoUnits
    /\ responses = NilChan
    /\ errors = NilChan
    /\ uniqueResponses = <<>>
    /\ compareErrors = NilChan
    /\ consumed = <<>>
    /\ printed = <<>>
    /\ ret = "none"
    /\ prep = PrepIdle
    /\ api = Idle
    /\ report = <<>>
    /\ given = ZeroConfiguration
    /\ closedBodies = <<>>
    /\ reading = NoBody

\* Bodies sent to set-config whose runs are followed to their end.
APIBodies == {BodyMalformed, BodyNoRequests, BodyEmpty, BodyOne, BodyTwice, BodyTwo}

APINext ==
    \/ \E body \in APIBodies : SetConfig(body)
    \/ GetConfig
    \/ APIStartCall
    \/ APIStartReply
    \/ StartRace
    \/ SendRequestsBegin
    \/ \E k \in 1..(MaxUnits + 1) : TargetParse(k)
    \/ \E k \in 1..(MaxUnits + 1) : TargetLoop(k)
    \/ \E u \in UnitIds : UnitRequest(u)
    \/ \E u \in UnitIds : UnitDone(u)
    \/ Wait
    \/ SendRequestsEnd
    \/ PrintErrors
    \/ CompareBegin
    \/ CompareRecord
    \/ CompareEnd
    \/ PrintCompareErrors
    \/ StartRaceReturn

SpecAPI == APIInit /\ [][APINext]_vars

\* ------------------------------------------------------------- from the entry to the launch of the requests
\* Both ways into a run, followed up to the launch of the request goroutines:
\* what a request goroutine does after its launch changes neither the
\* configuration nor the number of goroutines launched.
DispatchConfigs ==
    [Count : {-1, 0, 1, 2}, Proxy : {""}, Requests : {<<>>, <<tGet>>, <<tGet, tPost>>}]

DispatchBodies ==
    {BodyMalformed, BodyEmpty, BodyOne, BodyTwice, BodyNoCount, BodyZeroCount,
     BodyNegative}

\* main with a configuration file, after getConfigFile.
CMDInit ==
    /\ configuration \in DispatchConfigs
    /\ pc = "StartCMD"
    /\ urlsInProgress = 0
    /\ tgo = <<>>
    /\ unit = NoUnits
    /\ sent = NoUnits
    /\ responses = NilChan
    /\ errors = NilChan
    /\ uniqueResponses = <<>>
    /\ compareErrors = NilChan
    /\ consumed = <<>>
    /\ printed = <<>>
    /\ ret = "none"
    /\ prep = PrepIdle
    /\ api = NoHandler
    /\ report = <<>>
    /\ given = configuration
    /\ closedBodies = <<>>
    /\ reading = NoBody

DispatchInit == CMDInit \/ APIInit

\* gin.Default() runs the handlers under its Recovery middleware: a panic in
\* the goroutine of the handler is recovered and answered with status 500,
\* and the server goes on.  Here: the panic of make in sendRequests, before
\* any goroutine is started.
HandlerRecovered ==
    /\ pc = "panic"
    /\ api.handler = "APIStart"
    /\ ~responses.made
    /\ api' = [api EXCEPT !.handler = "idle",
                          !.reply = [NoReply EXCEPT !.status = 500, !.written = TRUE,
                                                    !.calls = <<"AbortWithStatus">>]]
    /\ pc' = "StartAPI"
    /\ UNCHANGED <<configuration, urlsInProgress, tgo, unit, sent, responses, errors,
                   uniqueResponses, compareErrors, consumed, printed, ret, prep,
                   report, given, closedBodies, reading>>

DispatchNext ==
    \/ StartCMD
    \/ StartCMDReturn
    \/ \E body \in DispatchBodies : SetConfig(body)
    \/ GetConfig
    \/ APIStartCall
    \/ APIStartReply
    \/ HandlerRecovered
    \/ StartRace
    \/ SendRequestsBegin
    \/ \E k \in 1..(MaxUnits + 1) : TargetParse(k)
    \/ \E k \in 1..(MaxUnits + 1) : TargetLoop(k)

SpecDispatch == DispatchInit /\ [][DispatchNext]_vars

\* ------------------------------------------------------------- properties of the grouping pass
\* compareResponses has returned to StartRace.
GroupingDone ==
    /\ pc \in {"printCompareErrors", "outputResponses", "returned"}
    /\ responses.made

\* The records dealt with so far whose body was read.
ReadOK(c) == ReadResponseBody(c.rec.Response).err = "nil"
ReadRecords == SelectSeq(consumed, ReadOK)

\* (status_code, body_text, content_length) of a record.
Tuple(rec) ==
    <<rec.Response.StatusCode, ReadResponseBody(rec.Response).content,
      rec.Response.ContentLength>>

GroupTuple(g) == <<g.Response.StatusCode, g.Response.Body, g.Response.Length>>

GroupCounts(groups) == [i \in 1..Len(groups) |-> groups[i].Count]

\* C4: at every point of the grouping pass, and so after it, the counts of
\* all groups add up to the number of records whose body was read; a record
\* dropped for a body-read failure adds to no count.
C4_CountConservation ==
    SumSeq(GroupCounts(uniqueResponses)) = Len(ReadRecords)

C4_Witness ==
    /\ GroupingDone
    /\ Len(consumed) = 4
    /\ Len(ReadRecords) = 3
    /\ Len(uniqueResponses) = 2

\* C5: two grouped records are in the same group exactly when their
\* (status_code, body_text, content_length) agree, and no two groups carry
\* the same tuple.
C5_Membership ==
    /\ \A i, j \in 1..Len(consumed) :
         (consumed[i].group # 0 /\ consumed[j].group # 0) =>
           ((consumed[i].group = consumed[j].group)
              <=> (Tuple(consumed[i].rec) = Tuple(consumed[j].rec)))
    /\ \A i \in 1..Len(consumed) :
         consumed[i].group # 0 =>
           /\ consumed[i].group \in 1..Len(uniqueResponses)
           /\ GroupTuple(uniqueResponses[consumed[i].group]) = Tuple(consumed[i].rec)
    /\ \A a, b \in 1..Len(uniqueResponses) :
         a # b => GroupTuple(uniqueResponses[a]) # GroupTuple(uniqueResponses[b])

C5_Witness ==
    /\ GroupingDone
    /\ \E i, j, k \in 1..Len(consumed) :
         /\ i < j
         /\ consumed[i].group = consumed[j].group
         /\ consumed[i].group # 0
         /\ consumed[k].group # 0
         /\ consumed[k].group # consumed[i].group
         /\ consumed[k].rec.Response.StatusCode = consumed[i].rec.Response.StatusCode
         /\ consumed[k].rec.Response.Body = consumed[i].rec.Response.Body

\* compareResponses as a function of the whole sequence of records.
RECURSIVE CompareAll(_, _)
CompareAll(groups, recs) ==
    IF recs = <<>> THEN groups
    ELSE CompareAll(CompareOne(groups, Head(recs)).groups, Tail(recs))

\* The multiset of ((status_code, body_text, content_length), count) pairs.
Summary(groups) ==
    LET pairs == {<<GroupTuple(groups[i]), groups[i].Count>> : i \in 1..Len(groups)}
    IN [p \in pairs |->
          Cardinality({i \in 1..Len(groups) :
                         <<GroupTuple(groups[i]), groups[i].Count>> = p})]

\* The orders in which n records can arrive.
ArrivalOrders ==
    [n \in 0..MaxUnits |->
       {f \in [1..n -> 1..n] : \A i, j \in 1..n : i # j => f[i] # f[j]}]

\* C6: grouping the same records in any other order of arrival gives the
\* same multiset of (tuple, count) pairs.
C6_OrderIndependent ==
    GroupingDone =>
      \A f \in ArrivalOrders[Len(consumed)] :
        Summary(CompareAll(<<>>, [i \in 1..Len(consumed) |-> consumed[f[i]].rec]))
          = Summary(uniqueResponses)

C6_Witness ==
    /\ GroupingDone
    /\ Len(consumed) = 4
    /\ Len(uniqueResponses) = 2
    /\ consumed[1].group = 1
    /\ consumed[2].group = 2
    /\ consumed[3].group = 1
    /\ consumed[4].group = 0

\* C7: the targets of a group hold no target twice and hold exactly the
\* targets of the records that went into the group.
C7_TargetDedup ==
    \A a \in 1..Len(uniqueResponses) :
      LET ts == uniqueResponses[a].Targets IN
        /\ \A i, j \in 1..Len(ts) : i # j => ts[i] # ts[j]
        /\ Range(ts) = {ReadRecords[i].rec.Target :
                          i \in {n \in 1..Len(ReadRecords) :
                                   Tuple(ReadRecords[n].rec)
                                     = GroupTuple(uniqueResponses[a])}}

\* two targets, two identical responses each: one group, count 4, 2 targets.
C7_Witness ==
    /\ GroupingDone
    /\ Len(consumed) = 4
    /\ \A i \in 1..4 : consumed[i].rec.Response = RespOK
    /\ Cardinality({i \in 1..4 : consumed[i].rec.Target = tGet}) = 2
    /\ Cardinality({i \in 1..4 : consumed[i].rec.Target = tPost}) = 2
    /\ Len(uniqueResponses) = 1
    /\ uniqueResponses[1].Count = 4
    /\ Len(uniqueResponses[1].Targets) = 2

\* C8: there are as many groups as there are distinct
\* (status_code, body_text, content_length) among the records read.
C8_GroupCount ==
    Len(uniqueResponses)
      = Cardinality({Tuple(ReadRecords[i].rec) : i \in 1..Len(ReadRecords)})

\* one target, three identical responses: one group with count 3.
C8_Witness ==
    /\ GroupingDone
    /\ Len(consumed) = 3
    /\ \A i \in 1..3 : consumed[i].rec = [Response |-> RespOK, Target |-> tGet]
    /\ Len(uniqueResponses) = 1
    /\ uniqueResponses[1].Count = 3

\* one target, three pairwise different responses: three groups with count 1.
C8_WitnessDistinct ==
    /\ GroupingDone
    /\ Len(consumed) = 3
    /\ \A i \in 1..3 : consumed[i].rec.Target = tGet
    /\ Len(uniqueResponses) = 3
    /\ \A a \in 1..3 : uniqueResponses[a].Count = 1

\* ------------------------------------------------------------- properties of the dispatcher
\* The count * len(targets) execution units of the run.
AllUnits == (1..NumTargets) \X (0..(configuration.Count - 1))

UnitFinished(u) == u \in DOMAIN unit /\ unit[u] = "done"

\* urlsInProgress.Wait() has returned in sendRequests.
BarrierPassed ==
    /\ responses.made
    /\ pc \in {"close", "printErrors", "compareResponses", "compareLoop",
               "printCompareErrors", "outputResponses", "returned", "panic"}
    /\ pc = "panic" => responses.closed

GroupingBegun ==
    \/ pc \in {"compareLoop", "printCompareErrors", "outputResponses"}
    \/ compareErrors.made

\* C1: sendRequests gets past its barrier, closes its channels and returns
\* only when every one of the count * len(targets) units has reported and
\* finished; grouping never runs beside a unit in flight.
C1_Barrier ==
    /\ (BarrierPassed \/ responses.closed \/ errors.closed) =>
         \A u \in AllUnits : UnitFinished(u) /\ u \in DOMAIN sent
    /\ GroupingBegun =>
         /\ \A u \in DOMAIN unit : unit[u] = "done"
         /\ \A k \in DOMAIN tgo : tgo[k].pc # "parse"

C1_Witness ==
    /\ pc = "compareLoop"
    /\ NumTargets = 2
    /\ configuration.Count = 2
    /\ \A u \in AllUnits : UnitFinished(u)
    /\ Len(consumed) = 1
    /\ Len(printed) = 1

\* C3: a unit reports exactly one outcome, a record or an error, so that
\* sendRequests returns with count * len(targets) outcomes collected.
C3_OneOutcomePerUnit ==
    /\ \A u \in DOMAIN unit : (unit[u] # "flight") <=> (u \in DOMAIN sent)
    /\ \A u \in DOMAIN sent : Len(sent[u].responses) + Len(sent[u].errors) = 1
    /\ pc = "Wait" =>
         Len(responses.buf) + Len(errors.buf)
           = Cardinality(DOMAIN sent)
               + Cardinality({k \in DOMAIN tgo :
                                tgo[k].pc = "returned" /\ ~URLParses(tgo[k].t.URL)})
    /\ pc \in {"close", "printErrors"} =>
         Len(responses.buf) + Len(errors.buf)
           = configuration.Count * Len(configuration.Requests)

C3_Witness ==
    /\ pc = "printErrors"
    /\ configuration.Count * Len(configuration.Requests) = 4
    /\ Len(responses.buf) = 3
    /\ Len(errors.buf) = 1

\* The request of unit u reached the server of a target that does not
\* follow redirects, and the server answered with a redirect.
BlockedRedirect(u) ==
    /\ ~tgo[u[1]].t.Redirects
    /\ tgo[u[1]].t.Method \in ValidMethods
    /\ sent[u].ans.kind = "redirect"

\* C9: a blocked redirect is reported as one record that carries the
\* redirect response, and as no error.
C9_RedirectSentinel ==
    /\ \A u \in DOMAIN sent :
         BlockedRedirect(u) =>
           /\ sent[u].errors = <<>>
           /\ Len(sent[u].responses) = 1
           /\ sent[u].responses[1].Target = tgo[u[1]].t
           /\ sent[u].responses[1].Response.StatusCode = sent[u].ans.resp.StatusCode
           /\ sent[u].responses[1].Response.Location = sent[u].ans.resp.Location
    /\ pc \in {"Wait", "close", "printErrors"} =>
         /\ Len(responses.buf) >=
              Cardinality({u \in DOMAIN sent : BlockedRedirect(u)})
         /\ Len(errors.buf) <=
              Cardinality({u \in DOMAIN sent : ~BlockedRedirect(u)})
                + Cardinality({k \in DOMAIN tgo : tgo[k].pc = "returned"})

C9_Witness ==
    /\ pc = "printErrors"
    /\ configuration.Requests = <<tGet>>
    /\ configuration.Count = 2
    /\ \A u \in DOMAIN sent : BlockedRedirect(u)
    /\ Len(responses.buf) = 2
    /\ \A i \in 1..2 : responses.buf[i].Response.StatusCode = 302
    /\ errors.buf = <<>>

\* C2: a run comes to its end, also with a target whose URL does not parse:
\* in a state where no goroutine can take a step, StartRace has returned.
C2_RunCompletes ==
    (/\ \A k \in 1..NumTargets : ~HeaderSplitPanics(configuration.Requests[k])
     /\ \E k \in 1..NumTargets : URLParses(configuration.Requests[k].URL))
      => (pc \in {"returned", "exit"} \/ ENABLED Next)

\* ------------------------------------------------------------- properties of prepareAttack
HasBareCookie(config) ==
    \E k \in 1..Len(config.Requests) :
      \E j \in 1..Len(config.Requests[k].Cookies) :
        "=" \notin Range(config.Requests[k].Cookies[j])

\* C10: with a cookie string without "=" in a target (and target URLs that
\* parse), prepareAttack ends by returning a cookie-format error, and no
\* request goroutine has been launched.
C10_CookieFormatError ==
    (/\ HasBareCookie(configuration)
     /\ \A k \in 1..NumTargets : URLParses(configuration.Requests[k].URL)
     /\ prep.pc \in {"returned", "panic"})
      => /\ prep.pc = "returned"
         /\ prep.err = "InvalidCookieFormat"
         /\ DOMAIN unit = {}

\* ------------------------------------------------------------- properties of the run as a whole
\* C11: with an empty list of targets no channel is made, the barrier is not
\* raised and no goroutine is started at any time, and StartRace returns one
\* error and no groups.
C11_NoTargets ==
    Len(configuration.Requests) = 0 =>
      /\ ~responses.made /\ ~errors.made /\ ~compareErrors.made
      /\ urlsInProgress = 0
      /\ tgo = <<>>
      /\ DOMAIN unit = {}
      /\ report = <<>>
      /\ pc \in {"StartCMD", "StartRace", "returned", "exit"}
      /\ pc \in {"returned", "exit"} =>
           /\ ret.err = "No targets set. Minimum of 1 target required."
           /\ ret.uniqueResponses = <<>>

C11_Witness ==
    /\ pc = "returned"
    /\ Len(configuration.Requests) = 0
    /\ ret.err # "nil"

\* ------------------------------------------------------------- properties of the requests
\* C13: a request goroutine never sends through a proxy whose scheme is
\* neither http nor https.
C13_ProxyScheme ==
    \A u \in DOMAIN sent :
      configuration.Proxy # "" =>
        /\ sent[u].req.Proxy # ""
        /\ ProxyScheme(sent[u].req.Proxy) \in {"http", "https"}

\* C19: the request of a POST target without a Content-Type header of its
\* own carries the form Content-Type once; with such a header, and for every
\* other method, the request carries only the headers of the target.
C19_DefaultContentType ==
    \A u \in DOMAIN sent :
      LET t == tgo[u[1]].t
          hs == sent[u].req.Header
          forms == {i \in 1..Len(hs) : hs[i] = FormContentType}
          supplied == HeaderCT \in Range(t.Headers)
      IN t.Method \in ValidMethods =>
           /\ (t.Method = "POST" /\ ~supplied) => Cardinality(forms) = 1
           /\ (t.Method = "POST" /\ supplied) =>
                /\ forms = {}
                /\ \E i \in 1..Len(hs) : ToLower(hs[i][1]) = ContentTypeKey
           /\ t.Method # "POST" => forms = {}
           /\ Len(hs) = Len(t.Headers) + Cardinality(forms)
                          + (IF Len(t.Cookies) > 0 THEN 1 ELSE 0)

C19_Witness ==
    /\ pc = "exit"
    /\ configuration.Requests = <<tGetCT, tPost>>
    /\ DOMAIN sent = {<<1, 0>>, <<2, 0>>}
    /\ sent[<<2, 0>>].req.Header = <<<<"X", "1">>, FormContentType>>
    /\ sent[<<1, 0>>].req.Header = <<<<"Content-Type", "j">>>>

C19_WitnessSupplied ==
    /\ pc = "exit"
    /\ configuration.Requests = <<tPostCT>>
    /\ sent[<<1, 0>>].req.Header = <<<<"X", "1">>, <<"Content-Type", "j">>>>

\* ------------------------------------------------------------- more properties of prepareAttack
\* C14: when prepareAttack has returned without an error, every target of
\* the configuration holds a cookie jar of its own with the cookies made from
\* its cookie strings.
C14_OwnCookieStore ==
    (prep.pc = "returned" /\ prep.err = "nil") =>
      \A k \in 1..Len(configuration.Requests) :
        LET t == configuration.Requests[k] IN
          /\ t.CookieJar # "nil"
          /\ t.CookieJar = [id |-> k,
                            cookies |-> [c \in 1..Len(t.Cookies) |->
                                           NewCookie(Split(t.Cookies[c], "="))]]

\* ------------------------------------------------------------- more properties of the grouping pass
\* The record compareResponses takes next has a body that cannot be read.
NextUnreadable ==
    /\ pc = "compareLoop"
    /\ responses.buf # <<>>
    /\ ~Head(responses.buf).Response.BodyOK

\* C16: the step that takes a record whose body cannot be read adds one
\* error to the errors of compareResponses, leaves every group as it is
\* (no new group, no count, no target), and stays in the loop.
C16_SkipUnreadable ==
    [][NextUnreadable =>
         /\ uniqueResponses' = uniqueResponses
         /\ Len(compareErrors'.buf) = Len(compareErrors.buf) + 1
         /\ responses'.buf = Tail(responses.buf)
         /\ consumed' = Append(consumed, [rec |-> Head(responses.buf), group |-> 0])
         /\ pc' = "compareLoop"]_vars

\* an unreadable record between two readable ones of the same group.
C16_Witness ==
    /\ GroupingDone
    /\ Len(consumed) = 3
    /\ consumed[1].group = 1
    /\ ~consumed[2].rec.Response.BodyOK
    /\ consumed[2].group = 0
    /\ consumed[3].group = 1
    /\ Len(uniqueResponses) = 1
    /\ uniqueResponses[1].Count = 2
    /\ Len(compareErrors.buf) + Len(printed) >= 1

\* The records that went to group a, as positions of consumed.
MembersOf(a) == {n \in 1..Len(consumed) : consumed[n].group = a}

FirstOf(a) == CHOOSE n \in MembersOf(a) : \A m \in MembersOf(a) : n <= m

\* C18: each report of outputResponses has one entry per group, in the order
\* in which the grouping pass created the groups, and its "Similar" is the
\* number of records that joined the group after the first one.
C18_Report ==
    \A r \in 1..Len(report) :
      /\ Len(report[r]) = Len(uniqueResponses)
      /\ \A a \in 1..Len(report[r]) :
           /\ MembersOf(a) # {}
           /\ report[r][a].Body = ReadResponseBody(consumed[FirstOf(a)].rec.Response).content
           /\ report[r][a].StatusCode = consumed[FirstOf(a)].rec.Response.StatusCode
           /\ report[r][a].Similar = Cardinality(MembersOf(a)) - 1
           /\ report[r][a].Similar = uniqueResponses[a].Count - 1
           /\ report[r][a].Similar >= 0
      /\ \A a, b \in 1..Len(report[r]) : a < b => FirstOf(a) < FirstOf(b)

C18_Witness ==
    /\ pc = "returned"
    /\ Len(report) = 1
    /\ Len(report[1]) = 2
    /\ report[1][1].Similar = 0
    /\ report[1][2].Similar = 2
    /\ report[1][1].Body = "no"
    /\ report[1][2].Body = "ok"

\* ------------------------------------------------------------- more properties of the run as a whole
\* The request goroutines whose response reached the responses channel with
\* a body that can be read.
ReadableUnits ==
    {u \in DOMAIN sent :
       /\ sent[u].responses # <<>>
       /\ ReadResponseBody(sent[u].responses[1].Response).err = "nil"}

\* C15: a run with at least one target comes to its end whatever its
\* requests ran into, with no error returned and with the groups of all the
\* responses that could be read.
C15_BestEffort ==
    (/\ Len(configuration.Requests) >= 1
     /\ \A k \in 1..NumTargets : ~HeaderSplitPanics(configuration.Requests[k]))
      => /\ pc \in {"returned", "exit"} =>
              /\ ret.err = "nil"
              /\ ret.uniqueResponses = uniqueResponses
              /\ SumSeq(GroupCounts(ret.uniqueResponses)) = Cardinality(ReadableUnits)
         /\ (urlsInProgress > 0 /\ \A k \in DOMAIN tgo : tgo[k].pc = "returned") =>
              \E u \in DOMAIN unit : unit[u] # "done"

\* The part of C15 about the value returned: when StartRace returns for a
\* configuration with targets, it returns no error and all groups.
ReturnsBestEffort ==
    (Len(configuration.Requests) >= 1 /\ pc \in {"returned", "exit"}) =>
      /\ ret.err = "nil"
      /\ SumSeq(GroupCounts(ret.uniqueResponses)) = Cardinality(ReadableUnits)

\* ------------------------------------------------------------- properties of the entry paths
\* The units launched for target k.
UnitsOf(k) == {u \in DOMAIN unit : u[1] = k}

\* C12: once sendRequests has begun, on the command line or for the control
\* surface, the count in use is 100 where the configuration read had none or
\* 0, and the count read otherwise; a target's goroutine launches exactly
\* that many request goroutines.
C12_DefaultCount ==
    responses.made =>
      LET count == IF given.Count = 0 THEN 100 ELSE given.Count IN
        /\ configuration.Count = count
        /\ responses.cap = count * Len(given.Requests)
        /\ \A k \in DOMAIN tgo :
             /\ Cardinality(UnitsOf(k)) <= count
             /\ tgo[k].pc = "returned" => Cardinality(UnitsOf(k)) = count

\* set-config without a count, then start: 100 request goroutines.
C12_Witness ==
    /\ api.handler = "APIStart"
    /\ Len(tgo) = 1
    /\ given = BindJSON(BodyNoCount).config
    /\ given.Count = 0
    /\ tgo[1].pc = "returned"
    /\ Cardinality(DOMAIN unit) = 100

\* a configuration file with count 0 and two targets: 200 request goroutines.
C12_WitnessCMD ==
    /\ api.handler = "none"
    /\ given.Count = 0
    /\ Len(given.Requests) = 2
    /\ \A k \in DOMAIN tgo : tgo[k].pc = "returned"
    /\ Cardinality(DOMAIN unit) = 200

\* ------------------------------------------------------------- properties of the control surface
\* C17: the reply to a get-config that follows a set-config is the stored
\* configuration, which is the bound one with its defaults set, and a start
\* runs with it.
C17_GetConfig ==
    /\ (api.last = "GetConfig" /\ api.stored) =>
         /\ api.reply.status = 200
         /\ Len(api.reply.body) = 1
         /\ api.reply.body[1].kind = "configuration"
         /\ api.reply.body[1].configuration = configuration
    /\ api.stored => configuration = SetDefaults(given)
    /\ (api.stored /\ api.handler = "APIStart" /\ responses.made) =>
         /\ responses.cap = SetDefaults(given).Count * Len(given.Requests)
         /\ \A k \in DOMAIN tgo : tgo[k].t = given.Requests[k]

\* The part of C17 about set-config and start alone.
StartRunsStored ==
    /\ api.stored => configuration = SetDefaults(given)
    /\ (api.stored /\ api.handler = "APIStart" /\ responses.made) =>
         /\ responses.cap = SetDefaults(given).Count * Len(given.Requests)
         /\ \A k \in DOMAIN tgo : tgo[k].t = given.Requests[k]

\* C20: the reply to a start whose run ended with an error is the failure
\* payload and nothing else: one call on the context, status 500, one body.
C20_FailureOnly ==
    (api.last = "APIStart" /\ api.handler = "idle" /\ ret.err # "nil") =>
      /\ api.reply.calls = <<"JSON">>
      /\ api.reply.status = 500
      /\ Len(api.reply.body) = 1
      /\ api.reply.body[1].kind = "message"

\* ------------------------------------------------------------- properties of the steps of the grouping pass
\* The record compareResponses takes next can be read, and its Location
\* header, if it has one, parses.
NextReadable ==
    /\ pc = "compareLoop"
    /\ responses.buf # <<>>
    /\ Head(responses.buf).Response.BodyOK
    /\ ResponseLocation(Head(responses.buf).Response).err \in {"nil", "ErrNoLocation"}

\* The groups whose tuple is that of the record taken next.
Matching ==
    {a \in 1..Len(uniqueResponses) :
       GroupTuple(uniqueResponses[a]) = Tuple(Head(responses.buf))}

Snapshot(rec) ==
    [Body |-> rec.Response.Body,
     StatusCode |-> rec.Response.StatusCode,
     Length |-> rec.Response.ContentLength,
     Protocol |-> rec.Response.Proto,
     Headers |-> IF rec.Response.Location = "" THEN <<>>
                 ELSE << <<"Location", rec.Response.Location>> >>,
     Location |-> rec.Response.Location]

\* C22: the exemplar of a group is the snapshot of the first record, in
\* order of arrival, with the tuple of the group; no step changes the
\* exemplar or the place of a group that exists.
C22_StableExemplar ==
    /\ [](\A a \in 1..Len(uniqueResponses) :
            LET first == CHOOSE n \in 1..Len(consumed) :
                           /\ Tuple(consumed[n].rec) = GroupTuple(uniqueResponses[a])
                           /\ \A m \in 1..(n - 1) :
                                Tuple(consumed[m].rec) # GroupTuple(uniqueResponses[a])
            IN uniqueResponses[a].Response = Snapshot(consumed[first].rec))
    /\ [][\A a \in 1..Len(uniqueResponses) :
            /\ a <= Len(uniqueResponses')
            /\ uniqueResponses'[a].Response = uniqueResponses[a].Response]_vars

\* a record with another protocol joins a group, one with another redirect
\* location joins the other group.
C22_Witness ==
    /\ GroupingDone
    /\ Len(consumed) = 4
    /\ consumed[1].rec.Response = RespOK2
    /\ consumed[2].rec.Response = RespFoundTo
    /\ consumed[3].rec.Response = RespOK
    /\ consumed[4].rec.Response = RespFound
    /\ Len(uniqueResponses) = 2
    /\ uniqueResponses[1].Count = 2
    /\ uniqueResponses[1].Response.Protocol = "HTTP/2.0"
    /\ uniqueResponses[2].Count = 2
    /\ uniqueResponses[2].Response.Location = "http://a.test/other"

\* Sequence s is the beginning of sequence t.
IsPrefix(s, t) == Len(s) <= Len(t) /\ \A i \in 1..Len(s) : s[i] = t[i]

\* C23: in every step of the grouping pass the groups stay and none is
\* taken away, no count goes down or is below 1, and the targets of a group
\* are only added to.
C23_Monotone ==
    [][/\ Len(uniqueResponses') >= Len(uniqueResponses)
       /\ \A a \in 1..Len(uniqueResponses) :
            /\ uniqueResponses'[a].Count >= uniqueResponses[a].Count
            /\ IsPrefix(uniqueResponses[a].Targets, uniqueResponses'[a].Targets)
       /\ \A a \in 1..Len(uniqueResponses') :
            /\ uniqueResponses'[a].Count >= 1
            /\ Len(uniqueResponses'[a].Targets) >= 1]_vars

\* a second target joins a group of count 2.
C23_Witness ==
    /\ pc = "compareLoop"
    /\ Len(consumed) = 3
    /\ Len(uniqueResponses) = 1
    /\ uniqueResponses[1].Count = 3
    /\ uniqueResponses[1].Targets = <<tGet, tPost>>
    /\ consumed[3].rec.Target = tPost

\* ------------------------------------------------------------- properties of the dispatch phase
\* sendRequests has made its channels and waits at the barrier: nothing takes
\* an item from a channel.
Dispatching == pc = "Wait" /\ responses.made

\* C24: while sendRequests waits at its barrier, a goroutine that is about
\* to send finds room in the channel, whichever channel its outcome goes to,
\* and neither channel holds more than count * len(targets) items.
C24_NeverBlocks ==
    Dispatching =>
      /\ responses.cap = configuration.Count * Len(configuration.Requests)
      /\ errors.cap = configuration.Count * Len(configuration.Requests)
      /\ Len(responses.buf) <= responses.cap
      /\ Len(errors.buf) <= errors.cap
      /\ \A u \in DOMAIN unit :
           unit[u] = "flight" =>
             /\ Len(responses.buf) < responses.cap
             /\ Len(errors.buf) < errors.cap
      /\ \A k \in DOMAIN tgo :
           tgo[k].pc = "parse" => Len(errors.buf) < errors.cap

\* the last goroutine is about to send with every other outcome in the
\* channels, nothing drained.
C24_Witness ==
    /\ Dispatching
    /\ configuration.Count * Len(configuration.Requests) = 4
    /\ Len(responses.buf) + Len(errors.buf) = 3
    /\ Len(errors.buf) = 2
    /\ \E u \in DOMAIN unit : unit[u] = "flight"

\* C25: a request goroutine that is in flight can finish at once, whatever
\* the other goroutines have or have not done, and a target's goroutine can
\* launch its next request without waiting for one to finish.
C25_NoWaiting ==
    (Dispatching /\ Alive) =>
      /\ \A u \in DOMAIN unit :
           /\ unit[u] = "flight" => ENABLED UnitRequest(u)
           /\ unit[u] = "sent" => ENABLED UnitDone(u)
      /\ \A k \in DOMAIN tgo :
           tgo[k].pc \in {"parse", "loop"} => ENABLED (TargetParse(k) \/ TargetLoop(k))

\* all count * len(targets) request goroutines are in flight at once.
C25_Witness ==
    /\ Dispatching
    /\ Len(configuration.Requests) = 2
    /\ configuration.Count = 2
    /\ DOMAIN unit = AllUnits
    /\ \A u \in AllUnits : unit[u] = "flight"

\* the goroutine launched last has finished, the one launched first has not.
C25_WitnessOrder ==
    /\ Dispatching
    /\ configuration.Requests = <<tGet>>
    /\ configuration.Count = 3
    /\ DOMAIN unit = AllUnits
    /\ unit[<<1, 2>>] = "done"
    /\ unit[<<1, 1>>] = "sent"
    /\ unit[<<1, 0>>] = "flight"

FirstIndex(s, sep) ==
    IF \E n \in 1..Len(s) : s[n] = sep
      THEN CHOOSE n \in 1..Len(s) : s[n] = sep /\ \A m \in 1..(n - 1) : s[m] # sep
      ELSE Len(s) + 1

BeforeFirst(s, sep) == SubSeq(s, 1, FirstIndex(s, sep) - 1)
AfterFirst(s, sep) == SubSeq(s, FirstIndex(s, sep) + 1, Len(s))

\* C27: every cookie prepareAttack has made for the target at hand has the
\* trimmed text before the first '=' of its cookie string as its name and the
\* whole trimmed text after that '=' as its value.
C27_SplitAtFirst ==
    (pc = "prepareAttack" /\ prep.pc \in {"cookies", "url"}) =>
      \A c \in 1..Len(prep.cookies) :
        LET text == configuration.Requests[prep.k].Cookies[c] IN
          /\ prep.cookies[c].Name = TrimSpace(BeforeFirst(text, "="))
          /\ prep.cookies[c].Value = TrimSpace(AfterFirst(text, "="))

\* ------------------------------------------------------------- set-config beside a run
\* gin serves every request in a goroutine of its own: SetConfig can run while
\* APIStart is inside the engine.  Its assignment configuration = config is
\* not synchronised with the reads of the engine, so the fields of the
\* struct may become visible one at a time and in any order.
ConfigFields == {"Count", "Proxy", "Requests"}

ConcurrentBodies == {BodyMalformed, BodyOne, BodyTwice}

ConcurrentConfigs ==
    {SetDefaults(BindJSON(b).config) : b \in {BodyOne, BodyTwice}}

\* SetConfig while APIStart is inside sendRequests: the body is bound,
\* defaults are set, and the assignment begins.  Its reply goes to its own
\* context.
ConcurrentSetConfig(body) ==
    /\ Alive
    /\ api.handler = "APIStart"
    /\ pc \in {"sendRequests", "Wait"}
    /\ api.setting.todo = {}
    /\ api.calls < MaxCalls
    /\ LET b == BindJSON(body) IN
         IF b.err # "nil"
           THEN /\ api' = [api EXCEPT !.calls = @ + 1]
                /\ UNCHANGED given
           ELSE /\ api' = [api EXCEPT !.calls = @ + 1, !.stored = TRUE,
                                      !.setting = [todo |-> ConfigFields,
                                                   config |-> SetDefaults(b.config)]]
                /\ given' = b.config
    /\ UNCHANGED <<configuration, pc, urlsInProgress, tgo, unit, sent, responses, errors,
                   uniqueResponses, compareErrors, consumed, printed, ret, prep, report,
                   closedBodies, reading>>

\* configuration = config, one field of it.
ConcurrentWrite ==
    /\ Alive
    /\ \E f \in api.setting.todo :
         /\ configuration' = [configuration EXCEPT ![f] = api.setting.config[f]]
         /\ api' = [api EXCEPT !.setting =
                       IF api.setting.todo = {f}
                         THEN NoSetting
                         ELSE [api.setting EXCEPT !.todo = @ \ {f}]]
    /\ UNCHANGED <<pc, urlsInProgress, tgo, unit, sent, responses, errors,
                   uniqueResponses, compareErrors, consumed, printed, ret, prep, report,
                   given, closedBodies, reading>>

\* The server with a configuration stored, a start request just received:
\* APIStart calls the engine.
ConcurrentInit ==
    /\ configuration \in ConcurrentConfigs
    /\ pc = "StartRace"
    /\ urlsInProgress = 0
    /\ tgo = <<>>
    /\ unit = NoUnits
    /\ sent = NoUnits
    /\ responses = NilChan
    /\ errors = NilChan
    /\ uniqueResponses = <<>>
    /\ compareErrors = NilChan
    /\ consumed = <<>>
    /\ printed = <<>>
    /\ ret = "none"
    /\ prep = PrepIdle
    /\ api = [Idle EXCEPT !.handler = "APIStart", !.calls = 1, !.last = "APIStart",
                          !.stored = TRUE]
    /\ report = <<>>
    /\ given = configuration
    /\ closedBodies = <<>>
    /\ reading = NoBody

ConcurrentNext ==
    \/ \E body \in ConcurrentBodies : ConcurrentSetConfig(body)
    \/ ConcurrentWrite
    \/ APIStartReply
    \/ StartRace
    \/ SendRequestsBegin
    \/ \E k \in 1..(MaxUnits + 1) : TargetParse(k)
    \/ \E k \in 1..(MaxUnits + 1) : TargetLoop(k)
    \/ \E u \in UnitIds : UnitRequest(u)
    \/ \E u \in UnitIds : UnitDone(u)
    \/ Wait
    \/ SendRequestsEnd
    \/ PrintErrors
    \/ CompareBegin
    \/ CompareRecord
    \/ CompareEnd
    \/ PrintCompareErrors
    \/ StartRaceReturn

SpecConcurrent == ConcurrentInit /\ [][ConcurrentNext]_vars

\* ------------------------------------------------------------- ReadResponseBody on a body
\* A response body as a reader: the bytes it has still to give, and whether
\* the read after them ends in an error instead of EOF.
NewBuffer(content) == [data |-> content, fails |-> FALSE]

RECURSIVE ByteStrings(_)
ByteStrings(n) ==
    IF n = 0 THEN {<<>>}
             ELSE ByteStrings(n - 1) \cup
                  {Append(b, c) : b \in ByteStrings(n - 1), c \in {"a", "b"}}

Bodies == [data : ByteStrings(MaxLen), fails : BOOLEAN]

\* ioutil.ReadAll: everything the reader still has is returned, with the
\* error that ended the read unless it was EOF; the reader is left drained.
ReadAll(r) ==
    [content |-> r.data,
     err |-> IF r.fails THEN "read error" ELSE "nil",
     rest |-> NewBuffer(<<>>)]

\* ReadResponseBody with its effect on the response: the content is read, and
\* resp.Body is set to a NopCloser over a new buffer of that content.
\* (variant: the body is left as the read left it)
ReadResponseBodyRefill_M1(resp) ==
    LET r == ReadAll(resp.Body) IN
      [content |-> r.content, err |-> r.err, resp |-> [resp EXCEPT !.Body = r.rest]]
ReadResponseBodyRefill(resp) ==
    LET r == ReadAll(resp.Body) IN
      [content |-> r.content, err |-> r.err,
       resp |-> [resp EXCEPT !.Body = NewBuffer(r.content)]]

\* One more call of ReadResponseBody on the response.
ReadBody ==
    /\ pc = "ReadResponseBody"
    /\ Len(reading.reads) < MaxReads
    /\ LET r == ReadResponseBodyRefill(reading.resp) IN
         reading' = [reading EXCEPT !.resp = r.resp,
                                    !.reads = Append(@, [content |-> r.content, err |-> r.err])]
    /\ UNCHANGED <<configuration, pc, urlsInProgress, tgo, unit, sent, responses, errors,
                   uniqueResponses, compareErrors, consumed, printed, ret, prep,
                   api, report, given, closedBodies>>

ReadInit ==
    /\ configuration = ZeroConfiguration
    /\ pc = "ReadResponseBody"
    /\ urlsInProgress = 0
    /\ tgo = <<>>
    /\ unit = NoUnits
    /\ sent = NoUnits
    /\ responses = NilChan
    /\ errors = NilChan
    /\ uniqueResponses = <<>>
    /\ compareErrors = NilChan
    /\ consumed = <<>>
    /\ printed = <<>>
    /\ ret = "none"
    /\ prep = PrepIdle
    /\ api = NoHandler
    /\ report = <<>>
    /\ given = configuration
    /\ closedBodies = <<>>
    /\ \E b \in Bodies :
         reading = [pc |-> "reading", resp |-> [Body |-> b], reads |-> <<>>]

ReadNext == ReadBody

SpecRead == ReadInit /\ [][ReadNext]_vars

\* ------------------------------------------------------------- properties of the response bodies
\* C28: after a first ReadResponseBody without error, every further
\* ReadResponseBody of the response returns the bytes the first returned,
\* without error, and the body the last read has left holds those bytes for
\* whoever reads the response next.
C28_Repeatable ==
    (reading.pc = "reading" /\ Len(reading.reads) >= 1 /\ reading.reads[1].err = "nil") =>
      /\ \A n \in 1..Len(reading.reads) :
           /\ reading.reads[n].content = reading.reads[1].content
           /\ reading.reads[n].err = "nil"
      /\ reading.resp.Body = NewBuffer(reading.reads[1].content)

\* a body of three bytes was read by ReadResponseBody again and again.
C28_Witness ==
    /\ reading.pc = "reading"
    /\ Len(reading.reads) = MaxReads
    /\ reading.reads[1] = [content |-> <<"a", "b", "a">>, err |-> "nil"]

\* C29: when StartRace has returned its groups, the body of every record a
\* request goroutine put on the responses channel has been closed by the
\* deferred function.
C29_BodiesClosed ==
    (pc \in {"returned", "exit"} /\ ret.err = "nil") =>
      /\ \A u \in DOMAIN sent :
           \A n \in 1..Len(sent[u].responses) :
             \E m \in 1..Len(closedBodies) : closedBodies[m] = sent[u].responses[n]
      /\ Len(closedBodies) = Cardinality({u \in DOMAIN sent : Len(sent[u].responses) = 1})

\* ------------------------------------------------------------- properties of the count
\* C30: whenever sendRequests starts, the count of the configuration is 1
\* at least, from a configuration file as from a set-config request.
C30_CountPositive ==
    pc = "sendRequests" => configuration.Count >= 1

\* ------------------------------------------------------------- properties of a run beside set-config
\* C31: a run beside which set-config replaces the configuration launches,
\* for each target, the number of request goroutines it has registered on
\* the WaitGroup for it (the capacity of its channels tells that number), the
\* counter never goes below zero, and once every goroutine has finished the
\* counter is zero, so that Wait returns.
C31_RunUnaffected ==
    /\ pc # "panic"
    /\ urlsInProgress >= 0
    /\ responses.made =>
         \A k \in DOMAIN tgo :
           /\ Cardinality(UnitsOf(k)) * Len(tgo) <= responses.cap
           /\ tgo[k].pc = "returned" =>
                Cardinality(UnitsOf(k)) * Len(tgo) = responses.cap
    /\ (/\ pc = "Wait"
        /\ \A k \in DOMAIN tgo : tgo[k].pc = "returned"
        /\ \A u \in DOMAIN unit : unit[u] = "done") => urlsInProgress = 0

\* ------------------------------------------------------------- properties of a whole run
\* C32: no step puts an item on the responses or the errors channel once
\* that channel is closed, and when a channel is closed no goroutine is left
\* that has still to send: no request in flight, no target before its
\* url.Parse.
C32_NoSendAfterClose ==
    /\ []((responses.closed \/ errors.closed) =>
            /\ \A u \in DOMAIN unit : unit[u] # "flight"
            /\ \A k \in DOMAIN tgo : tgo[k].pc # "parse")
    /\ [][/\ (responses.closed /\ responses'.closed) =>
               Len(responses'.buf) <= Len(responses.buf)
          /\ (errors.closed /\ errors'.closed) =>
               Len(errors'.buf) <= Len(errors.buf)]_vars

\* both channels are closed with the outcomes of four requests in them.
C32_Witness ==
    /\ pc = "printErrors"
    /\ responses.closed
    /\ errors.closed
    /\ Len(responses.buf) = 2
    /\ Len(errors.buf) = 2

\* C33: when StartRace has returned its groups, the counts of the groups,
\* the errors of the dispatch and the errors of reading a body add up to
\* count * len(targets): each request is in one of the three, once.
C33_Accounting ==
    (pc \in {"returned", "exit"} /\ ret.err = "nil") =>
      LET dispatchErrors == Cardinality({u \in DOMAIN sent : sent[u].errors # <<>>})
          readErrors == Cardinality({n \in 1..Len(consumed) : consumed[n].group = 0})
      IN /\ SumSeq(GroupCounts(ret.uniqueResponses)) + dispatchErrors + readErrors
              = configuration.Count * Len(configuration.Requests)
         /\ Len(printed) = dispatchErrors + readErrors
         /\ Len(consumed) + dispatchErrors = Cardinality(DOMAIN sent)

\* a run of four requests has returned with a group, a dispatch error and a
\* body that could not be read.
C33_Witness ==
    /\ pc = "returned"
    /\ ret.err = "nil"
    /\ configuration.Count * Len(configuration.Requests) = 4
    /\ Len(ret.uniqueResponses) >= 1
    /\ \E u \in DOMAIN sent : sent[u].errors # <<>>
    /\ \E n \in 1..Len(consumed) : consumed[n].group = 0

\* C34: the WaitGroup counter is never negative and is zero whenever no run
\* is inside sendRequests; a run, the first or a later one, passes the
\* barrier with exactly its own count * len(targets) requests finished, and
\* what it returns is made of the records of its own requests only.
C34_BarrierReusable ==
    /\ urlsInProgress >= 0
    /\ pc # "Wait" => urlsInProgress = 0
    /\ pc = "close" =>
         /\ Cardinality(DOMAIN unit) = configuration.Count * Len(configuration.Requests)
         /\ \A u \in DOMAIN unit : unit[u] = "done"
    /\ pc = "returned" /\ ret.err = "nil" =>
         /\ SumSeq(GroupCounts(ret.uniqueResponses)) = Cardinality(ReadableUnits)
         /\ Len(consumed) = Cardinality({u \in DOMAIN sent : sent[u].responses # <<>>})
         /\ \A n \in 1..Len(consumed) :
              \E u \in DOMAIN sent : sent[u].responses = <<consumed[n].rec>>

\* a second run has returned after a first one that returned a report.
C34_Witness ==
    /\ pc = "returned"
    /\ api.handler = "APIStart"
    /\ ret.err = "nil"
    /\ Len(report) = 2
    /\ Len(report[1]) >= 1
    /\ Len(ret.uniqueResponses) >= 1
    /\ Cardinality(DOMAIN unit) = 2

\* ------------------------------------------------------------- properties of the grouping pass, its failures
\* C35: a record whose Location header does not parse does not end the
\* pass: compareResponses does not panic on it, the record is grouped with an
\* empty location or answered with an error, and the records behind it in
\* the channel are dealt with.
C35_BadLocationTolerated ==
    /\ pc # "panic"
    /\ \A n \in 1..Len(consumed) :
         LET resp == consumed[n].rec.Response IN
           (ReadResponseBody(resp).err = "nil"
              /\ ResponseLocation(resp).err # "ErrNoLocation"
              /\ ResponseLocation(resp).url = "nil") =>
             \/ consumed[n].group = 0
             \/ uniqueResponses[consumed[n].group].Response.Location = ""

\* ------------------------------------------------------------- properties of the custom headers
\* the custom headers are attached as the text before and the whole text
\* after the first ':' of their string
HeadersWhole ==
    \A u \in DOMAIN sent :
      LET t == tgo[u[1]].t
          hs == sent[u].req.Header
      IN t.Method \in ValidMethods =>
           \A j \in 1..Len(t.Headers) :
             \E i \in 1..Len(hs) :
               hs[i] = <<BeforeFirst(t.Headers[j], ":"), AfterFirst(t.Headers[j], ":")>>

\* a header string without ':' gives the request an error outcome
BareHeaderIsError ==
    /\ pc # "panic"
    /\ \A u \in DOMAIN sent :
         HeaderSplitPanics(tgo[u[1]].t) => sent[u].errors # <<>>

\* C36: each custom header of a target is on the request with the text
\* before its first ':' as name and all of the text after it as value, and
\* a header string without ':' makes the request end in an error, the run
\* goes on.
C36_HeaderSplit == HeadersWhole /\ BareHeaderIsError

\* ------------------------------------------------------------- properties of set-config
\* the body is no configuration: not JSON, or without its required requests
NotAConfiguration(body) == ~body.valid \/ "requests" \notin body.keys

\* C37: a set-config call with a body that is no valid configuration is
\* answered with 400 and leaves var configuration as it was; a step that
\* changes the configuration is a set-config call answered with 200, and the
\* new value is the bound one with its defaults.
C37_FailedSetKeeps ==
    [][/\ \A body \in APIBodies :
            (SetConfig(body) /\ NotAConfiguration(body)) =>
              /\ configuration' = configuration
              /\ given' = given
              /\ api'.reply.status = 400
              /\ api'.reply.body[1].message = "invalid JSON data"
       /\ configuration' # configuration =>
            /\ api'.last = "SetConfig"
            /\ api'.calls = api.calls + 1
            /\ api'.reply.status = 200
            /\ configuration' = SetDefaults(given')
            /\ \E body \in APIBodies :
                 ~NotAConfiguration(body) /\ given' = BindJSON(body).config]_vars

\* a configuration was stored, and the set-config call after it failed.
C37_Witness ==
    /\ api.last = "SetConfig"
    /\ api.calls = 2
    /\ api.stored
    /\ api.reply.status = 400
    /\ Len(configuration.Requests) = 1
    /\ configuration = SetDefaults(given)

\* ------------------------------------------------------------- properties of the errors of the grouping pass
\* C38: the errors channel of compareResponses has the number of records
\* waiting in the responses channel as its capacity; while records are left
\* there is room in it for the error of the next one; it is closed once,
\* when no record is left, and nothing is put on it after that.
C38_CompareErrors ==
    /\ [](pc = "compareLoop" =>
            /\ compareErrors.made
            /\ ~compareErrors.closed
            /\ compareErrors.cap = Len(responses.buf) + Len(consumed)
            /\ Len(compareErrors.buf) <= Len(consumed)
            /\ responses.buf # <<>> => Len(compareErrors.buf) < compareErrors.cap)
    /\ [][/\ (~compareErrors.closed /\ compareErrors'.closed) =>
               /\ pc = "compareLoop"
               /\ responses.buf = <<>>
               /\ compareErrors'.buf = compareErrors.buf
          /\ compareErrors.closed =>
               /\ compareErrors'.closed \/ pc' = "StartRace"
               /\ Len(compareErrors'.buf) <= Len(compareErrors.buf)]_vars

\* every record of the pass was unreadable: the channel is full when it is
\* closed.
C38_Witness ==
    /\ pc = "printCompareErrors"
    /\ compareErrors.closed
    /\ compareErrors.cap >= 2
    /\ Len(compareErrors.buf) = compareErrors.cap

====
